---------------------------- MODULE Spec2Model ----------------------------
(***************************************************************************)
(* Verification model of the Crusty terminal music player: the playback    *)
(* queue (src/src/player/queue.rs), the audio playback engine              *)
(* (src/src/player/audio.rs) and the download coordinator                  *)
(* (src/src/ui/app.rs, spawn_download_with_limit and its background task). *)
(*                                                                         *)
(* Option<T> values are modelled as sequences: None is <<>> and Some(x) is *)
(* <<x>>.  Instants and durations are whole seconds of a discrete clock.   *)
(***************************************************************************)
EXTENDS Integers, Sequences, FiniteSets, Bags, TLC

None == << >>

Some(x) == << x >>

IsSome(o) == o # None

Unwrap(o) == o[1]

(***************************************************************************)
(* Bounds of the model.                                                    *)
(***************************************************************************)
\* number of distinct tracks the queue model draws from
NumTracks == 2

\* total number of add() calls explored
MaxAdds == 3

TrackIds == 1..NumTracks

\* last instant of the discrete clock
MaxTime == 3

\* the duration hint (seconds) given for a track of known length
TrackDuration == 2

\* seconds skipped by one relative seek
SeekStep == 1

\* number of distinct video IDs requested
NumVideos == 3

\* the ceiling on simultaneous fetches; the program's value is 30
\* (app.rs:1734), scaled down so that the ceiling is reached
MaxConcurrent == 2

\* total number of background fetch tasks spawned
MaxSpawns == 3

VideoIds == 1..NumVideos

\* ensure_next_track_ready requests this many pending tracks (app.rs:1835)
PrefetchAhead == 10

\* load_queue_async requests this many pending tracks (app.rs:381)
RestoreAhead == 5

\* trigger_smart_downloads requests this many pending tracks (app.rs:1849)
SmartAhead == 10

\* Key presses (next, previous, space, quit) in one session
MaxKeys == 2

\* trigger_hover_download requests the track this far behind the cursor
\* (app.rs:2165)
HoverAhead == 15

\* the longest pending list a saved queue file holds
LongQueue == 17

TaskIds == 1..MaxSpawns

\* The loop trims the history to this many entries (100 in app.rs:267, 1622,
\* 1672)
HistoryLimit == 2

\* is_finished trusts an empty sink only after this many seconds of playback
GuardSecs == 2

VARIABLES
    \* ---- Queue (queue.rs:162-166) ----
    tracks,          \* VecDeque<Track>: pending tracks, front first
    current_track,   \* Option<Track>
    history,         \* Vec<Track>, oldest first
    \* ---- observation of the queue's calls ----
    added,           \* every track handed to add(), in call order
    qOp,             \* name of the last queue call
    qPre,            \* the queue as it was before the last call
    qRet,            \* what the last call returned
    qOp2,            \* name of the call before the last one
    qCur2,           \* current_track before the call before the last one
    \* ---- AudioPlayer (audio.rs:77-91) and the clock ----
    player,          \* the AudioPlayer struct
    now,             \* Instant::now(), in seconds
    ppc,             \* where the thread stands inside the player's code
    pArg,            \* arguments of the play_with_duration call in progress
    pOp,             \* name and outcome of the last player call
    played,          \* clock time spent Playing since the last successful load,
                     \* while only pause / resume / toggle calls followed it
    \* ---- download bookkeeping (app.rs:74-112) ----
    active_downloads,    \* Arc<Mutex<usize>>
    downloading_videos,  \* Arc<Mutex<HashSet<String>>>: video IDs in flight
    downloaded_files,    \* Arc<Mutex<HashMap>>: video IDs with a cached file
    failed_downloads,    \* Arc<Mutex<HashMap>>: video IDs with a failure
    download_chan,       \* download_tx -> download_rx, messages in flight
    background_tasks,    \* Arc<Mutex<Vec<JoinHandle>>>: registered tasks
    task,                \* the spawned tasks: video ID, position, outcome
    mpc,                 \* where the main thread stands inside request()
    reqVid,              \* video ID of the request() call in progress
    \* ---- observation of the request() calls ----
    reqObs,              \* what the call in progress saw and did so far
    lastCall,            \* the call that has just returned, in full
    seen,                \* how many distinct video IDs request() was given
    underflowed,         \* a task decremented the counter at zero
    \* ---- MusicPlayerApp (app.rs:55-115) and its surroundings ----
    pending_play_track,    \* Option<Track>: the track the UI waits to play
    currently_downloading, \* Option<String>: title of the awaited fetch
    files,                 \* the cached audio files present on disk
    cleanups,              \* files with a delayed removal scheduled (app.rs:532)
    reqs,                  \* request() calls the running handler has yet to make
    phase,                 \* where the main loop is: start, recv, advance, input,
                           \* grace (tasks aborted), saved
    keys,                  \* key presses handled so far
    queue_expanded,        \* bool: the queue view is open (app.rs:78)
    selected_queue_item,   \* usize: the cursor of the queue view (app.rs:64)
    aOp                    \* observation: the last step of the main loop

qvars == << tracks, current_track, history, added, qOp, qPre, qRet, qOp2, qCur2 >>

pvars == << player, now, ppc, pArg, pOp, played >>

dvars == << active_downloads, downloading_videos, downloaded_files, failed_downloads,
           download_chan, background_tasks, task, mpc, reqVid,
           reqObs, lastCall, seen, underflowed >>

\* the queue view: its flag and its cursor
view == << queue_expanded, selected_queue_item >>

avars == << pending_play_track, currently_downloading, files, cleanups, reqs, phase, keys,
           view, aOp >>

vars == << qvars, pvars, dvars, avars >>

\* what a call on the queue leaves alone, what a call on the player does, and
\* what a step of the download coordinator does
nonQueue == << pvars, dvars, avars >>

nonPlayer == << qvars, dvars, avars >>

nonDownload == << qvars, pvars >>

(***************************************************************************)
(*                               QUEUE                                     *)
(***************************************************************************)
\* The three collections of a Queue as one value.
QueueOf(t, c, h) == [tracks |-> t, current_track |-> c, history |-> h]

ThisQueue == QueueOf(tracks, current_track, history)

\* Queue::new
QueueNew == QueueOf(<< >>, None, << >>)

\* Queue::add: push_back
QueueAdd(q, t) == [q EXCEPT !.tracks = Append(@, t)]

\* A remove_at that fills the hole with the last pending track
\* (VecDeque::swap_remove_back) instead of closing it.
QueueRemoveAtSwap(q, index) ==
    IF index < Len(q.tracks)
    THEN [q   |-> [q EXCEPT !.tracks =
                      IF index + 1 = Len(@)
                      THEN SubSeq(@, 1, index)
                      ELSE SubSeq(@, 1, index) \o << @[Len(@)] >>
                              \o SubSeq(@, index + 2, Len(@) - 1)],
          ret |-> Some(q.tracks[index + 1])]
    ELSE [q |-> q, ret |-> None]

\* Queue::remove_at: VecDeque::remove(index) inside the bounds, None outside;
\* indexes count from 0.
QueueRemoveAt(q, index) ==
    IF index < Len(q.tracks)
    THEN [q   |-> [q EXCEPT !.tracks =
                      SubSeq(@, 1, index) \o SubSeq(@, index + 2, Len(@))],
          ret |-> Some(q.tracks[index + 1])]
    ELSE [q |-> q, ret |-> None]

\* Mutant of Queue::next: with nothing pending the old current stays referenced.
QueueNextStale(q) ==
    LET h == IF IsSome(q.current_track)
             THEN Append(q.history, Unwrap(q.current_track))
             ELSE q.history
    IN IF q.tracks # << >>
       THEN [q   |-> QueueOf(Tail(q.tracks), Some(Head(q.tracks)), h),
             ret |-> Some(Head(q.tracks))]
       ELSE [q   |-> QueueOf(q.tracks, q.current_track, h),
             ret |-> None]

\* Queue::next: current.take() goes to the back of history, then the front of
\* tracks is popped into current; with nothing to pop current is None.
QueueNext(q) ==
    LET h == IF IsSome(q.current_track)
             THEN Append(q.history, Unwrap(q.current_track))
             ELSE q.history
    IN IF q.tracks # << >>
       THEN [q   |-> QueueOf(Tail(q.tracks), Some(Head(q.tracks)), h),
             ret |-> Some(Head(q.tracks))]
       ELSE [q   |-> QueueOf(q.tracks, None, h),
             ret |-> None]

\* Mutant of Queue::previous: the current track is re-queued at the back.
QueuePreviousBack(q) ==
    LET t == IF IsSome(q.current_track)
             THEN Append(q.tracks, Unwrap(q.current_track))
             ELSE q.tracks
        n == Len(q.history)
    IN IF n > 0
       THEN [q   |-> QueueOf(t, Some(q.history[n]), SubSeq(q.history, 1, n - 1)),
             ret |-> Some(q.history[n])]
       ELSE [q   |-> QueueOf(t, None, q.history),
             ret |-> None]

\* Queue::previous: current.take() goes to the front of tracks, then the back
\* of history is popped into current; with nothing to pop current is None.
QueuePrevious(q) ==
    LET t == IF IsSome(q.current_track)
             THEN << Unwrap(q.current_track) >> \o q.tracks
             ELSE q.tracks
        n == Len(q.history)
    IN IF n > 0
       THEN [q   |-> QueueOf(t, Some(q.history[n]), SubSeq(q.history, 1, n - 1)),
             ret |-> Some(q.history[n])]
       ELSE [q   |-> QueueOf(t, None, q.history),
             ret |-> None]

\* Mutant of Queue::start_or_next: the first branch peeks instead of popping.
QueueStartOrNextPeek(q) ==
    IF q.current_track = None /\ q.tracks # << >>
    THEN [q   |-> QueueOf(q.tracks, Some(Head(q.tracks)), q.history),
          ret |-> Some(Head(q.tracks))]
    ELSE QueueNext(q)

\* Queue::start_or_next
QueueStartOrNext(q) ==
    IF q.current_track = None /\ q.tracks # << >>
    THEN [q   |-> QueueOf(Tail(q.tracks), Some(Head(q.tracks)), q.history),
          ret |-> Some(Head(q.tracks))]
    ELSE QueueNext(q)

\* A queue call took place: the queue becomes r.q, the observation is updated.
QueueCall(name, r) ==
    /\ tracks' = r.q.tracks
    /\ current_track' = r.q.current_track
    /\ history' = r.q.history
    /\ qOp' = name
    /\ qPre' = ThisQueue
    /\ qRet' = r.ret
    /\ qOp2' = qOp
    /\ qCur2' = qPre.current_track
    /\ UNCHANGED nonQueue

InitQueue ==
    /\ tracks = QueueNew.tracks
    /\ current_track = QueueNew.current_track
    /\ history = QueueNew.history
    /\ added = << >>
    /\ qOp = "new"
    /\ qPre = QueueNew
    /\ qRet = None
    /\ qOp2 = "new"
    /\ qCur2 = None

DoAdd(t) ==
    /\ Len(added) < MaxAdds
    /\ QueueCall("add", [q |-> QueueAdd(ThisQueue, t), ret |-> None])
    /\ added' = Append(added, t)

DoNext ==
    /\ QueueCall("next", QueueNext(ThisQueue))
    /\ UNCHANGED added

DoPrevious ==
    /\ QueueCall("previous", QueuePrevious(ThisQueue))
    /\ UNCHANGED added

DoStartOrNext ==
    /\ QueueCall("start_or_next", QueueStartOrNext(ThisQueue))
    /\ UNCHANGED added

\* A limit_history that keeps the oldest entries instead of the newest.
QueueLimitHistoryOldest(q, max_size) ==
    IF Len(q.history) > max_size
    THEN [q EXCEPT !.history = SubSeq(@, 1, max_size)]
    ELSE q

\* Queue::limit_history: drain(0..excess)
QueueLimitHistory(q, max_size) ==
    IF Len(q.history) > max_size
    THEN [q EXCEPT !.history = SubSeq(@, Len(@) - max_size + 1, Len(@))]
    ELSE q

\* What play_next and play_previous do to the queue (app.rs:1620-1622,
\* 1670-1672): the history is trimmed only when the call returned a track.
NavigateAndLimit(r) ==
    IF IsSome(r.ret)
    THEN [q |-> QueueLimitHistory(r.q, HistoryLimit), ret |-> r.ret]
    ELSE r

\* The histories history.json may hold at startup (app.rs:144-150), within the
\* limit.
LoadedHistories ==
    UNION {[1..n -> TrackIds] : n \in 0..HistoryLimit}

\* MusicPlayerApp::new with a history file.
InitHistory ==
    /\ tracks = QueueNew.tracks
    /\ current_track = QueueNew.current_track
    /\ history \in LoadedHistories
    /\ added = << >>
    /\ qOp = "new"
    /\ qPre = QueueNew
    /\ qRet = None
    /\ qOp2 = "new"
    /\ qCur2 = None

DoPlayNextQueue ==
    /\ QueueCall("play_next", NavigateAndLimit(QueueNext(ThisQueue)))
    /\ UNCHANGED added

DoPlayPreviousQueue ==
    /\ QueueCall("play_previous", NavigateAndLimit(QueuePrevious(ThisQueue)))
    /\ UNCHANGED added

\* save_history, as far as the queue goes (app.rs:267)
DoSaveHistory ==
    /\ QueueCall("save_history",
                 [q |-> QueueLimitHistory(ThisQueue, HistoryLimit), ret |-> None])
    /\ UNCHANGED added

\* The positions a caller may ask remove_at for: inside and past the list.
RemoveIndexes == 0..MaxAdds

DoRemoveAt(index) ==
    /\ QueueCall("remove_at", QueueRemoveAt(ThisQueue, index))
    /\ UNCHANGED added

NextQueue ==
    \/ \E t \in TrackIds : DoAdd(t)
    \/ DoNext
    \/ DoPrevious
    \/ DoStartOrNext



(***************************************************************************)
(*                          PLAYBACK ENGINE                                *)
(***************************************************************************)
\* PlayerState (audio.rs:32-37)
PlayerStates == {"Stopped", "Playing", "Paused", "Loading"}

\* The tracks the engine is asked to load: a song names both its file and its
\* title.
Songs == {"song1", "song2"}

\* track.duration as f64: 0 when the length is unknown
DurationHints == {0, TrackDuration}

VolumeLevels == {0, 37, 100}

\* rodio's Sink as the engine sees it: whether audio is queued (!sink.empty())
\* and whether the transport is paused.
SinkOf(q, p) == [queued |-> q, paused |-> p]

\* AudioPlayer::new: sink is Some when an output device was opened.
PlayerNew(device) ==
    [sink                  |-> IF device THEN Some(SinkOf(FALSE, FALSE)) ELSE None,
     state                 |-> "Stopped",
     volume                |-> 100,
     duration              |-> 0,
     current_title         |-> "",
     start_time            |-> None,
     pause_time            |-> None,
     total_paused_duration |-> 0,
     current_file_path     |-> None,
     seek_position         |-> None]

\* Instant::duration_since and Duration::saturating_sub: zero when negative.
SaturatingSub(a, b) == IF a >= b THEN a - b ELSE 0

\* Sink::stop() empties the queue; Sink::pause()/play() set the transport.
SinkStop(sink) == IF IsSome(sink) THEN Some([Unwrap(sink) EXCEPT !.queued = FALSE]) ELSE sink

SinkPause(sink) == IF IsSome(sink) THEN Some([Unwrap(sink) EXCEPT !.paused = TRUE]) ELSE sink

SinkPlay(sink) == IF IsSome(sink) THEN Some([Unwrap(sink) EXCEPT !.paused = FALSE]) ELSE sink

SinkAppend(sink) == IF IsSome(sink) THEN Some([Unwrap(sink) EXCEPT !.queued = TRUE]) ELSE sink

\* AudioPlayer::get_time_pos
get_time_pos(p, t) ==
    IF IsSome(p.start_time)
    THEN LET start   == Unwrap(p.start_time)
             elapsed == IF IsSome(p.pause_time)
                        THEN SaturatingSub(Unwrap(p.pause_time), start)
                        ELSE SaturatingSub(t, start)
         IN SaturatingSub(elapsed, p.total_paused_duration)
    ELSE 0

\* Mutant of AudioPlayer::is_finished: the state check is dropped.
is_finished_no_state_check(p, t) ==
    IF IsSome(p.sink)
    THEN IF Unwrap(p.sink).queued THEN FALSE
         ELSE IF IsSome(p.start_time)
              THEN get_time_pos(p, t) >= GuardSecs
              ELSE FALSE
    ELSE FALSE

\* Mutant of AudioPlayer::is_finished: the 2-second guard is dropped.
is_finished_no_guard(p, t) ==
    IF IsSome(p.sink)
    THEN IF Unwrap(p.sink).queued THEN FALSE
         ELSE IF p.state # "Playing" THEN FALSE
         ELSE IsSome(p.start_time)
    ELSE FALSE

\* AudioPlayer::is_finished
is_finished(p, t) ==
    IF IsSome(p.sink)
    THEN IF Unwrap(p.sink).queued THEN FALSE
         ELSE IF p.state # "Playing" THEN FALSE
         ELSE IF IsSome(p.start_time)
              THEN get_time_pos(p, t) >= GuardSecs
              ELSE FALSE
    ELSE FALSE

\* play_with_duration up to the decode (audio.rs:191-197): with a sink the
\* state becomes Loading and the sink is stopped.
PlayEnter(p) == [p EXCEPT !.state = "Loading", !.sink = SinkStop(@)]

\* The outcomes of decode_from_file and sink.append under catch_unwind.
PlayOutcomes == {"ok", "decode_err", "decode_panic", "append_panic"}

\* Mutant of the failure arms: the start time is left in place.
PlayFailKeepStart(p) == [p EXCEPT !.state = "Stopped"]

\* play_with_duration, the three failure arms (audio.rs:231-245)
PlayFail(p) == [p EXCEPT !.state = "Stopped", !.start_time = None]

\* Mutant of the success arm: the pause bookkeeping is not reset.
PlaySucceedKeepPause(p, a, t) ==
    [p EXCEPT !.sink = SinkAppend(@),
              !.state = "Playing",
              !.current_title = a.title,
              !.duration = IF a.known_duration > 0 THEN a.known_duration ELSE 0,
              !.start_time = Some(t),
              !.current_file_path = Some(a.file_path)]

\* play_with_duration, the success arm (audio.rs:211-230); the decoder's own
\* duration is always 0.0 (audio.rs:262).
PlaySucceed(p, a, t) ==
    [p EXCEPT !.sink = SinkAppend(@),
              !.state = "Playing",
              !.current_title = a.title,
              !.duration = IF a.known_duration > 0 THEN a.known_duration ELSE 0,
              !.start_time = Some(t),
              !.pause_time = None,
              !.total_paused_duration = 0,
              !.current_file_path = Some(a.file_path)]

\* A play_with_duration whose failure arms forget to leave Loading.
PlayLeaveStuckLoading(p, a, outcome, t) ==
    IF outcome = "ok" THEN PlaySucceed(p, a, t) ELSE p

\* play_with_duration from the decode result on (audio.rs:205-246)
PlayLeave(p, a, outcome, t) ==
    IF outcome = "ok" THEN PlaySucceed(p, a, t) ELSE PlayFail(p)

\* AudioPlayer::pause
pause(p, t) ==
    [p EXCEPT !.sink = SinkPause(@),
              !.pause_time = IF p.state = "Playing" THEN Some(t) ELSE @,
              !.state = "Paused"]

\* Mutant of AudioPlayer::resume: the paused interval is not accumulated.
resume_forgets_pause(p, t) ==
    [p EXCEPT !.sink = SinkPlay(@),
              !.pause_time = None,
              !.state = "Playing"]

\* AudioPlayer::resume
resume(p, t) ==
    [p EXCEPT !.sink = SinkPlay(@),
              !.total_paused_duration =
                  IF IsSome(p.pause_time)
                  THEN @ + SaturatingSub(t, Unwrap(p.pause_time))
                  ELSE @,
              !.pause_time = None,
              !.state = "Playing"]

\* AudioPlayer::toggle_pause
toggle_pause(p, t) ==
    IF p.state = "Playing" THEN pause(p, t)
    ELSE IF p.state = "Paused" THEN resume(p, t)
    ELSE p

\* Mutant of AudioPlayer::stop: the paused total is not reset.
stop_keeps_paused_total(p) ==
    [p EXCEPT !.sink = SinkStop(@),
              !.start_time = None,
              !.pause_time = None,
              !.state = "Stopped"]

\* AudioPlayer::stop
stop(p) ==
    [p EXCEPT !.sink = SinkStop(@),
              !.start_time = None,
              !.pause_time = None,
              !.total_paused_duration = 0,
              !.state = "Stopped"]

\* AudioPlayer::seek
seek(p, seconds) ==
    IF p.current_title = "" THEN p
    ELSE [p EXCEPT !.seek_position =
             Some(IF seconds < 0 THEN 0
                  ELSE IF p.duration > 0 /\ seconds > p.duration THEN p.duration
                  ELSE seconds)]

\* AudioPlayer::seek_relative
seek_relative(p, seconds, t) == seek(p, get_time_pos(p, t) + seconds)

\* A set_volume that stores the level only when there is a sink to apply it to.
set_volume_needs_sink(p, v) == IF IsSome(p.sink) THEN [p EXCEPT !.volume = v] ELSE p

\* AudioPlayer::set_volume
set_volume(p, v) == [p EXCEPT !.volume = v]

\* AudioPlayer::get_volume
get_volume(p) == p.volume

\* An apply_seek that forgets to move the start time back by the seek position.
ApplySeekNoShift(p, seek_pos) == [p EXCEPT !.seek_position = None]

\* apply_seek after its play_with_duration call returned (audio.rs:440-447)
ApplySeekShift(p, seek_pos) ==
    [p EXCEPT !.start_time = IF IsSome(@) THEN Some(Unwrap(@) - seek_pos) ELSE @,
              !.seek_position = None]

NoArg == [file_path |-> "", title |-> "", known_duration |-> 0, from |-> "Stopped",
          caller |-> "", seek_pos |-> 0]

\* The engine after construction, with or without an audio device.
InitPlayerDevice(device) ==
    /\ player = PlayerNew(device)
    /\ now = 0
    /\ ppc = "idle"
    /\ pArg = NoArg
    /\ pOp = "new"
    /\ played = None

\* A call that runs from entry to return in one piece.
PlayerCall(name, p) ==
    /\ ppc = "idle"
    /\ player' = p
    /\ pOp' = name
    /\ pArg' = NoArg
    /\ played' = IF name \in {"pause", "resume", "toggle_pause"} THEN played ELSE None
    /\ UNCHANGED << now, ppc >>
    /\ UNCHANGED nonPlayer

\* play_with_duration is entered: without a sink it returns at once, with one
\* the thread goes on to decode the file.
EnterPlay(a) ==
    IF IsSome(player.sink)
    THEN /\ player' = PlayEnter(player)
         /\ ppc' = "decode"
         /\ pArg' = a
         /\ pOp' = "play_enter"
         /\ UNCHANGED now
    ELSE /\ ppc' = IF a.caller = "apply_seek" THEN "shift" ELSE "idle"
         /\ pArg' = IF a.caller = "apply_seek" THEN a ELSE NoArg
         /\ pOp' = "play_no_sink"
         /\ UNCHANGED << player, now >>

DoPlay(song, d) ==
    /\ ppc = "idle"
    /\ played' = None
    /\ EnterPlay([file_path |-> song, title |-> song, known_duration |-> d,
                  from |-> player.state, caller |-> "play", seek_pos |-> 0])
    /\ UNCHANGED nonPlayer

\* The decode and the append have ended one way or another.
DoPlayReturn(outcome) ==
    /\ ppc = "decode"
    /\ player' = PlayLeave(player, pArg, outcome, now)
    /\ ppc' = IF pArg.caller = "apply_seek" THEN "shift" ELSE "idle"
    /\ pOp' = IF outcome = "ok" THEN "play_ok" ELSE "play_failed"
    /\ played' = IF outcome = "ok" /\ pArg.caller = "play" THEN Some(0) ELSE None
    /\ UNCHANGED << now, pArg >>
    /\ UNCHANGED nonPlayer

\* AudioPlayer::apply_seek up to and including the call of play_with_duration
DoApplySeek ==
    /\ ppc = "idle"
    /\ played' = None
    /\ IF IsSome(player.seek_position) /\ IsSome(player.current_file_path)
       THEN EnterPlay([file_path |-> Unwrap(player.current_file_path),
                       title |-> player.current_title,
                       known_duration |-> player.duration,
                       from |-> player.state, caller |-> "apply_seek",
                       seek_pos |-> Unwrap(player.seek_position)])
       ELSE /\ pOp' = "apply_seek_false"
            /\ pArg' = NoArg
            /\ UNCHANGED << player, now, ppc >>
    /\ UNCHANGED nonPlayer

DoApplySeekShift ==
    /\ ppc = "shift"
    /\ player' = ApplySeekShift(player, pArg.seek_pos)
    /\ ppc' = "idle"
    /\ pOp' = "apply_seek_true"
    /\ played' = None
    /\ UNCHANGED << now, pArg >>
    /\ UNCHANGED nonPlayer

DoPause == PlayerCall("pause", pause(player, now))

DoResume == PlayerCall("resume", resume(player, now))

DoTogglePause == PlayerCall("toggle_pause", toggle_pause(player, now))

DoStop == PlayerCall("stop", stop(player))

DoSeek(seconds) == PlayerCall("seek", seek(player, seconds))

\* The explored positions are capped at MaxTime.
DoSeekRelative(seconds) ==
    /\ get_time_pos(player, now) + seconds <= MaxTime
    /\ PlayerCall("seek_relative", seek_relative(player, seconds, now))

DoSetVolume(v) == PlayerCall("set_volume", set_volume(player, v))

\* One second passes.
Tick ==
    /\ now < MaxTime
    /\ now' = now + 1
    /\ pOp' = "tick"
    /\ pArg' = IF ppc = "idle" THEN NoArg ELSE pArg
    /\ played' = IF IsSome(played) /\ player.state = "Playing"
                 THEN Some(Unwrap(played) + 1)
                 ELSE played
    /\ UNCHANGED << player, ppc >>
    /\ UNCHANGED nonPlayer

\* The audio queued in the sink runs out; a paused sink consumes nothing.
SinkDrain ==
    /\ IsSome(player.sink)
    /\ Unwrap(player.sink).queued
    /\ ~Unwrap(player.sink).paused
    /\ player' = [player EXCEPT !.sink = SinkStop(@)]
    /\ pOp' = "drain"
    /\ pArg' = IF ppc = "idle" THEN NoArg ELSE pArg
    /\ UNCHANGED << now, ppc, played >>
    /\ UNCHANGED nonPlayer

NextPlayer ==
    \/ \E song \in Songs, d \in DurationHints : DoPlay(song, d)
    \/ \E outcome \in PlayOutcomes : DoPlayReturn(outcome)
    \/ DoApplySeek
    \/ DoApplySeekShift
    \/ DoPause
    \/ DoResume
    \/ DoTogglePause
    \/ DoStop
    \/ \E seconds \in (0 - 1)..(TrackDuration + 1) : DoSeek(seconds)
    \/ \E seconds \in {0 - SeekStep, SeekStep} : DoSeekRelative(seconds)
    \/ Tick
    \/ SinkDrain

(***************************************************************************)
(*                       DOWNLOAD COORDINATOR                              *)
(*                                                                         *)
(* spawn_download_with_limit runs on the main thread; the body of the task *)
(* it spawns runs on a worker thread of the tokio runtime (#[tokio::main], *)
(* main.rs:10).  Each shared map has its own mutex, taken and released     *)
(* once per access, so the two sides interleave between accesses: every    *)
(* action below is one critical section.                                   *)
(***************************************************************************)
\* Mutant of the ceiling test: > instead of >=.
AtCeilingExclusive(count) == count > MaxConcurrent

\* app.rs:1734: active_count >= 30
AtCeiling(count) == count >= MaxConcurrent

\* The results of the task's spawn_blocking(fetch_audio_url_blocking).await:
\* Ok(Ok(path)), Ok(Err(e)), Err(join error).
FetchOutcomes == {"ok", "err", "join_err"}

\* A task slot: the video it fetches, where its body stands, and, between
\* recording the result and posting it, whether the result is a file path.
NoTask == [vid |-> 0, pc |-> "unused", ok |-> FALSE]

\* What is observed of one request() call: its argument and result, whether
\* the video was cached, failed or in flight when the call began, whether it
\* had a recorded failure when the call began, whether the
\* counter was at the ceiling when the call read it, whether the call wrote to
\* the shared state, how many fetches it launched, and whether it follows
\* immediately an accepted call for the same video.
NoCall == [vid |-> 0, ret |-> FALSE, known |-> FALSE, failed |-> FALSE,
           ceiling |-> FALSE, wrote |-> FALSE, launched |-> 0, repeat |-> FALSE]

\* The tasks spawned so far occupy the first slots.
Spawned == {i \in TaskIds : task[i].pc # "unused"}

\* The video ID is cached, has a recorded failure or is in flight.
Known(v) ==
    v \in downloaded_files \/ v \in failed_downloads \/ v \in downloading_videos

\* Nothing observed of the main loop.
NoApp == [name |-> "", vid |-> 0, ok |-> FALSE, waited |-> FALSE,
          cached |-> FALSE, ondisk |-> FALSE, auto |-> FALSE]

\* Nothing observed of this step; what is remembered is whether the track the
\* loop waits for was chosen by the loop's own auto-advance.
Carry == [NoApp EXCEPT !.auto = aOp.auto]

\* A step that is none of the main loop's handlers.
AppIdle ==
    /\ aOp' = Carry
    /\ UNCHANGED << pending_play_track, currently_downloading, files, cleanups, reqs, phase, keys, view >>

\* What the caller does with the result of the request() it made: the play
\* paths and the retry set currently_downloading when the call was accepted
\* (app.rs:546-548, 1641-1643, 1651-1653, 2083-2085); the prefetch loops drop
\* the result.  A call made outside a handler has no caller to return to.
AfterRequest(ret, v) ==
    IF reqs = << >>
    THEN AppIdle
    ELSE /\ reqs' = Tail(reqs)
         /\ currently_downloading' =
               IF Head(reqs).mark /\ ret THEN Some(v) ELSE currently_downloading
         /\ aOp' = [Carry EXCEPT !.name = Head(reqs).why, !.vid = v, !.ok = ret]
         /\ UNCHANGED << pending_play_track, files, cleanups, phase, keys, view >>

InitDownload ==
    /\ active_downloads = 0
    /\ downloading_videos = {}
    /\ downloaded_files = {}
    /\ failed_downloads = {}
    /\ download_chan = << >>
    /\ background_tasks = {}
    /\ task = [i \in TaskIds |-> NoTask]
    /\ mpc = "idle"
    /\ reqVid = 0
    /\ reqObs = NoCall
    /\ lastCall = NoCall
    /\ seen = 0
    /\ underflowed = FALSE

\* request() returns: the call in progress becomes the last completed call.
ReqReturn(ret, obs) ==
    /\ mpc' = "idle"
    /\ reqVid' = 0
    /\ reqObs' = NoCall
    /\ lastCall' = [obs EXCEPT !.ret = ret]
    /\ AfterRequest(ret, obs.vid)

\* The main loop calls spawn_download_with_limit(track).  Video IDs are opaque
\* strings that the code only compares for equality, so the IDs are numbered
\* in the order in which request() first meets them.
CallRequest(v) ==
    /\ mpc = "idle"
    /\ Cardinality(Spawned) < MaxSpawns
    /\ v <= seen + 1
    /\ seen' = IF v > seen THEN v ELSE seen
    /\ mpc' = "req_count"
    /\ reqVid' = v
    /\ reqObs' = [NoCall EXCEPT !.vid = v, !.known = Known(v),
                                !.failed = (v \in failed_downloads),
                                !.repeat = (lastCall.ret /\ lastCall.vid = v)]
    /\ lastCall' = NoCall
    /\ UNCHANGED << active_downloads, downloading_videos, downloaded_files,
                    failed_downloads, download_chan, background_tasks, task,
                    underflowed >>
    /\ reqs = << >>
    /\ AppIdle
    /\ UNCHANGED nonDownload

\* app.rs:1729-1737: read the counter, return false at the ceiling
ReqCheckCount ==
    /\ mpc = "req_count"
    /\ IF AtCeiling(active_downloads)
       THEN ReqReturn(FALSE, [reqObs EXCEPT !.ceiling = TRUE])
       ELSE /\ mpc' = "req_cache"
            /\ lastCall' = NoCall
            /\ UNCHANGED << reqVid, reqObs >>
            /\ AppIdle
    /\ UNCHANGED << active_downloads, downloading_videos, downloaded_files,
                    failed_downloads, download_chan, background_tasks, task,
                    underflowed >>
    /\ UNCHANGED << seen, nonDownload >>

\* app.rs:1741-1746: return false when the video is cached
ReqCheckCache ==
    /\ mpc = "req_cache"
    /\ IF reqVid \in downloaded_files
       THEN ReqReturn(FALSE, reqObs)
       ELSE /\ mpc' = "req_failed"
            /\ lastCall' = NoCall
            /\ UNCHANGED << reqVid, reqObs >>
            /\ AppIdle
    /\ UNCHANGED << active_downloads, downloading_videos, downloaded_files,
                    failed_downloads, download_chan, background_tasks, task,
                    underflowed >>
    /\ UNCHANGED << seen, nonDownload >>

\* A request() that does not consult the failure map.
ReqCheckFailedRetries ==
    /\ mpc = "req_failed"
    /\ mpc' = "req_inflight"
    /\ lastCall' = NoCall
    /\ UNCHANGED << reqVid, reqObs >>
    /\ AppIdle
    /\ UNCHANGED << active_downloads, downloading_videos, downloaded_files,
                    failed_downloads, download_chan, background_tasks, task,
                    underflowed >>
    /\ UNCHANGED << seen, nonDownload >>

\* app.rs:1748-1753: return false when the video has a recorded failure
ReqCheckFailed ==
    /\ mpc = "req_failed"
    /\ IF reqVid \in failed_downloads
       THEN ReqReturn(FALSE, reqObs)
       ELSE /\ mpc' = "req_inflight"
            /\ lastCall' = NoCall
            /\ UNCHANGED << reqVid, reqObs >>
            /\ AppIdle
    /\ UNCHANGED << active_downloads, downloading_videos, downloaded_files,
                    failed_downloads, download_chan, background_tasks, task,
                    underflowed >>
    /\ UNCHANGED << seen, nonDownload >>

\* app.rs:1755-1762: return false when the video is in flight, else mark it
ReqCheckInflight ==
    /\ mpc = "req_inflight"
    /\ reqVid \in downloading_videos \/ Cardinality(Spawned) < MaxSpawns
    /\ IF reqVid \in downloading_videos
       THEN /\ ReqReturn(FALSE, reqObs)
            /\ UNCHANGED downloading_videos
       ELSE /\ downloading_videos' = downloading_videos \cup {reqVid}
            /\ mpc' = "req_inc"
            /\ reqObs' = [reqObs EXCEPT !.wrote = TRUE]
            /\ lastCall' = NoCall
            /\ UNCHANGED reqVid
            /\ AppIdle
    /\ UNCHANGED << active_downloads, downloaded_files, failed_downloads,
                    download_chan, background_tasks, task, underflowed >>
    /\ UNCHANGED << seen, nonDownload >>

\* app.rs:1764-1767: *count += 1
ReqIncrement ==
    /\ mpc = "req_inc"
    /\ active_downloads' = active_downloads + 1
    /\ mpc' = "req_spawn"
    /\ lastCall' = NoCall
    /\ AppIdle
    /\ UNCHANGED << downloading_videos, downloaded_files, failed_downloads,
                    download_chan, background_tasks, task, reqVid, reqObs,
                    underflowed >>
    /\ UNCHANGED << seen, nonDownload >>

\* app.rs:1779-1823: tokio::spawn the task, push its handle, return true
ReqSpawn ==
    /\ mpc = "req_spawn"
    /\ LET i == Cardinality(Spawned) + 1
       IN /\ task' = [task EXCEPT ![i] = [vid |-> reqVid, pc |-> "fetch", ok |-> FALSE]]
          /\ background_tasks' = background_tasks \cup {i}
    /\ ReqReturn(TRUE, [reqObs EXCEPT !.launched = @ + 1])
    /\ UNCHANGED << active_downloads, downloading_videos, downloaded_files,
                    failed_downloads, download_chan, underflowed >>
    /\ UNCHANGED << seen, nonDownload >>

\* app.rs:1780-1806, first half: the blocking fetch has ended and its result
\* is recorded in the cache map or in the failure map.
TaskRecord(i, outcome) ==
    /\ task[i].pc = "fetch"
    /\ task' = [task EXCEPT ![i].pc = "send", ![i].ok = (outcome = "ok")]
    /\ IF outcome = "ok"
       THEN /\ downloaded_files' = downloaded_files \cup {task[i].vid}
            /\ files' = files \cup {task[i].vid}
            /\ UNCHANGED failed_downloads
       ELSE /\ failed_downloads' = failed_downloads \cup {task[i].vid}
            /\ UNCHANGED << downloaded_files, files >>
    /\ aOp' = Carry
    /\ UNCHANGED << pending_play_track, currently_downloading, cleanups, reqs, phase, keys, view >>
    /\ lastCall' = NoCall
    /\ UNCHANGED << active_downloads, downloading_videos, download_chan,
                    background_tasks, mpc, reqVid, reqObs, underflowed >>
    /\ UNCHANGED << seen, nonDownload >>

\* app.rs:1791/1797/1804: download_tx.send((video_id, result))
TaskSend(i) ==
    /\ task[i].pc = "send"
    /\ download_chan' = Append(download_chan,
                               [vid |-> task[i].vid, ok |-> task[i].ok])
    /\ task' = [task EXCEPT ![i].pc = "dec", ![i].ok = FALSE]
    /\ lastCall' = NoCall
    /\ UNCHANGED << active_downloads, downloading_videos, downloaded_files,
                    failed_downloads, background_tasks, mpc, reqVid, reqObs, underflowed >>
    /\ AppIdle
    /\ UNCHANGED << seen, nonDownload >>

\* app.rs:1808-1811: *count = count.saturating_sub(1)
TaskDecrement(i) ==
    /\ task[i].pc = "dec"
    /\ active_downloads' = SaturatingSub(active_downloads, 1)
    /\ underflowed' = (underflowed \/ active_downloads = 0)
    /\ task' = [task EXCEPT ![i].pc = "remove"]
    /\ lastCall' = NoCall
    /\ UNCHANGED << downloading_videos, downloaded_files, failed_downloads,
                    download_chan, background_tasks, mpc, reqVid, reqObs >>
    /\ AppIdle
    /\ UNCHANGED << seen, nonDownload >>

\* Mutant of the task's last step: the in-flight mark is left behind.
TaskRemoveKeepsMark(i) ==
    /\ task[i].pc = "remove"
    /\ task' = [task EXCEPT ![i] = [NoTask EXCEPT !.pc = "done"]]
    /\ lastCall' = NoCall
    /\ UNCHANGED << active_downloads, downloading_videos, downloaded_files,
                    failed_downloads, download_chan, background_tasks, mpc, reqVid,
                    reqObs, underflowed >>
    /\ AppIdle
    /\ UNCHANGED << seen, nonDownload >>

\* app.rs:1812-1815: downloading.remove(&video_id); the task ends
TaskRemove(i) ==
    /\ task[i].pc = "remove"
    /\ downloading_videos' = downloading_videos \ {task[i].vid}
    /\ task' = [task EXCEPT ![i] = [NoTask EXCEPT !.pc = "done"]]
    /\ lastCall' = NoCall
    /\ UNCHANGED << active_downloads, downloaded_files, failed_downloads,
                    download_chan, background_tasks, mpc, reqVid, reqObs, underflowed >>
    /\ AppIdle
    /\ UNCHANGED << seen, nonDownload >>

\* app.rs:514: the main loop takes one completion message off the channel.
\* What the loop does with it belongs to the application; here the message
\* is consumed, and a later request() no longer follows the last one
\* immediately.
Receive ==
    /\ mpc = "idle"
    /\ download_chan # << >>
    /\ download_chan' = Tail(download_chan)
    /\ lastCall' = NoCall
    /\ UNCHANGED << active_downloads, downloading_videos, downloaded_files,
                    failed_downloads, background_tasks, task, mpc, reqVid,
                    reqObs, underflowed >>
    /\ AppIdle
    /\ UNCHANGED << seen, nonDownload >>

NextDownload ==
    \/ \E v \in VideoIds : CallRequest(v)
    \/ ReqCheckCount
    \/ ReqCheckCache
    \/ ReqCheckFailed
    \/ ReqCheckInflight
    \/ ReqIncrement
    \/ ReqSpawn
    \/ \E i \in TaskIds, outcome \in FetchOutcomes : TaskRecord(i, outcome)
    \/ \E i \in TaskIds : TaskSend(i)
    \/ \E i \in TaskIds : TaskDecrement(i)
    \/ \E i \in TaskIds : TaskRemove(i)
    \/ Receive

(***************************************************************************)
(*                          APPLICATION LOOP                               *)
(*                                                                         *)
(* The main loop of MusicPlayerApp::run is one thread.  A handler runs up   *)
(* to its first request() call in one piece; the request() calls it makes  *)
(* are then taken one at a time through the steps of the coordinator,      *)
(* interleaved with the fetch tasks; no other handler starts before the    *)
(* last of them has returned.  All tracks are YouTube tracks (their URL    *)
(* names the site), as every track built from a search result is.          *)
(***************************************************************************)
InitApp ==
    /\ pending_play_track = None
    /\ currently_downloading = None
    /\ files = {}
    /\ cleanups = {}
    /\ reqs = << >>
    /\ phase = "start"
    /\ keys = 0
    /\ queue_expanded = FALSE
    /\ selected_queue_item = 0
    /\ aOp = NoApp

\* Track v: its video ID is v, its title and the path of its audio file are
\* named after it.
TrackTitle(v) == << "song1", "song2", "song3", "song4", "song5" >>[v]

\* A request() call a handler is about to make: for which video, whether the
\* caller sets currently_downloading on acceptance, and on whose behalf.
Req(v, mark, why) == [vid |-> v, mark |-> mark, why |-> why]

\* A prefetch that asks for the next pending track only.
RequestSliceNextOnly(ts, n, why) ==
    IF ts = << >> THEN << >> ELSE << Req(ts[1], FALSE, why) >>

\* queue.get_queue_slice(0, n), each track to be requested in order
RequestSlice(ts, n, why) ==
    [i \in 1..(IF Len(ts) < n THEN Len(ts) ELSE n) |-> Req(ts[i], FALSE, why)]

\* One iteration of the loop (app.rs:459-603) polls the completion channel
\* once, then looks whether the track has finished, then polls the keyboard.
Running == {"recv", "advance", "input"}

\* The main loop is between two handlers.
MainReady == phase \in Running /\ mpc = "idle" /\ reqs = << >>

\* app.rs:581: the condition of the auto-advance
TrackOver == is_finished(player, now) /\ player.state = "Playing"

\* The loop is at its auto-advance: try_recv is behind it, with a message
\* handled or with none found.
AtAdvance == phase = "advance" \/ (phase = "recv" /\ download_chan = << >>)

\* The loop is at its keyboard poll: the auto-advance is behind it, taken or
\* found not due.
AtInput == phase = "input" \/ (AtAdvance /\ ~TrackOver)

\* What the main thread leaves alone in the coordinator's state while it runs
\* a handler body.
HandlerFrame ==
    /\ lastCall' = NoCall
    /\ UNCHANGED << active_downloads, downloading_videos, failed_downloads,
                    background_tasks, task, mpc, reqVid, reqObs, seen, underflowed >>

QueueBecomes(q) ==
    /\ tracks' = q.tracks
    /\ current_track' = q.current_track
    /\ history' = q.history
    /\ UNCHANGED << added, qOp, qPre, qRet, qOp2, qCur2 >>

\* The file opens and decodes, or not; a file that is gone cannot be opened.
DecodeOutcomes(v) == IF v \in files THEN PlayOutcomes ELSE PlayOutcomes \ {"ok"}

\* self.player.play_with_duration(path, &track.title, track.duration as f64)
AppPlay(v, outcome) ==
    /\ player' =
          IF IsSome(player.sink)
          THEN PlayLeave(PlayEnter(player),
                         [NoArg EXCEPT !.file_path = TrackTitle(v),
                                       !.title = TrackTitle(v),
                                       !.known_duration = TrackDuration],
                         outcome, now)
          ELSE player
    /\ pOp' = IF outcome = "ok" THEN "play_ok" ELSE "play_failed"
    /\ played' = IF outcome = "ok" THEN Some(0) ELSE None
    /\ UNCHANGED << now, ppc, pArg >>

\* The first loop iteration (app.rs:479-482): load_queue_async restores the
\* saved queue and requests the current track, then the first pending tracks.
LoadQueue(saved) ==
    /\ phase = "start"
    /\ phase' = "recv"
    /\ QueueBecomes(QueueOf(saved.tracks, saved.current_track, history))
    /\ reqs' = (IF IsSome(saved.current_track)
                THEN << Req(Unwrap(saved.current_track), FALSE, "restore") >>
                ELSE << >>)
               \o RequestSlice(saved.tracks, RestoreAhead, "restore")
    /\ aOp' = [NoApp EXCEPT !.name = "load_queue"]
    /\ HandlerFrame
    /\ UNCHANGED << pending_play_track, currently_downloading, files, cleanups, keys, view >>
    /\ UNCHANGED << downloaded_files, download_chan >>
    /\ UNCHANGED pvars

\* The queue files a session may have left: the first track current, and
\* either nothing or all the other tracks pending.
SavedQueues ==
    { [tracks |-> [i \in 1..n |-> i + 1], current_track |-> Some(1)] :
        n \in {0, NumVideos - 1} }

\* The handler under way makes its next request() call.
AppCallRequest ==
    /\ phase \in Running
    /\ mpc = "idle"
    /\ reqs # << >>
    /\ mpc' = "req_count"
    /\ reqVid' = Head(reqs).vid
    /\ reqObs' = [NoCall EXCEPT !.vid = Head(reqs).vid,
                                !.known = Known(Head(reqs).vid),
                                !.failed = (Head(reqs).vid \in failed_downloads),
                                !.repeat = (lastCall.ret /\ lastCall.vid = Head(reqs).vid)]
    /\ lastCall' = NoCall
    /\ aOp' = Carry
    /\ UNCHANGED << active_downloads, downloading_videos, downloaded_files,
                    failed_downloads, download_chan, background_tasks, task,
                    seen, underflowed >>
    /\ UNCHANGED << pending_play_track, currently_downloading, files, cleanups, reqs, phase, keys, view >>
    /\ UNCHANGED nonDownload

\* What play_next, play_previous and play_current_or_first do with the track
\* they chose (app.rs:1623-1659, 1674-1709, 2065-2091); the queue has become q.
\* checked: the path tests that the cached file exists before playing it.
StartTrack(name, v, q, checked) ==
    /\ QueueBecomes(q)
    /\ IF v \in downloaded_files /\ (checked => v \in files)
       THEN /\ \E outcome \in DecodeOutcomes(v) : AppPlay(v, outcome)
            /\ pending_play_track' = None
            /\ reqs' = RequestSlice(q.tracks, PrefetchAhead, "prefetch")
            /\ aOp' = [NoApp EXCEPT !.name = name, !.vid = v, !.cached = TRUE,
                                    !.ondisk = (v \in files)]
            /\ UNCHANGED downloaded_files
       ELSE /\ downloaded_files' = downloaded_files \ {v}
            /\ pending_play_track' = Some(v)
            /\ reqs' = << Req(v, TRUE, "play") >>
            /\ aOp' = [NoApp EXCEPT !.name = name, !.vid = v,
                                    !.auto = (keys' = keys)]
            /\ UNCHANGED pvars
    /\ currently_downloading' = None
    /\ HandlerFrame
    /\ UNCHANGED << files, cleanups, download_chan >>

\* A play path that found no track to play.
NoTrack(name, q) ==
    /\ QueueBecomes(q)
    /\ pending_play_track' = None
    /\ currently_downloading' = None
    /\ reqs' = << >>
    /\ aOp' = [NoApp EXCEPT !.name = name]
    /\ HandlerFrame
    /\ UNCHANGED << files, cleanups, downloaded_files, download_chan >>
    /\ UNCHANGED pvars

\* MusicPlayerApp::play_next
PlayNext ==
    LET r == QueueNext(ThisQueue)
    IN IF IsSome(r.ret)
       THEN StartTrack("play_next", Unwrap(r.ret), r.q, TRUE)
       ELSE NoTrack("play_next", r.q)

\* The keyboard poll finds a key pressed.
KeyPress ==
    /\ MainReady
    /\ AtInput
    /\ keys < MaxKeys
    /\ keys' = keys + 1

\* KeyCode 'n' (app.rs:1521)
CmdPlayNext ==
    /\ KeyPress
    /\ phase' = "recv"
    /\ UNCHANGED view
    /\ PlayNext

\* KeyCode 'p' (app.rs:1525): MusicPlayerApp::play_previous
CmdPlayPrevious ==
    /\ KeyPress
    /\ phase' = "recv"
    /\ UNCHANGED view
    /\ LET r == QueuePrevious(ThisQueue)
       IN IF IsSome(r.ret)
          THEN StartTrack("play_previous", Unwrap(r.ret), r.q, TRUE)
          ELSE NoTrack("play_previous", r.q)

\* MusicPlayerApp::play_current_or_first
PlayCurrentOrFirst ==
    IF IsSome(current_track)
    THEN StartTrack("play_current_or_first", Unwrap(current_track), ThisQueue, FALSE)
    ELSE LET r == QueueStartOrNext(ThisQueue)
         IN IF IsSome(r.ret)
            THEN StartTrack("play_current_or_first", Unwrap(r.ret), r.q, FALSE)
            ELSE NoTrack("play_current_or_first", r.q)

\* Queue::restore_queue: the pending list and the current track are replaced,
\* the history stays.
QueueRestoreQueue(q, ts, cur) == [q EXCEPT !.tracks = ts, !.current_track = cur]

\* `for _ in 0..=selected { queue.remove_at(0); }` with k = selected + 1
RECURSIVE RemoveFront(_, _)
RemoveFront(q, k) == IF k = 0 THEN q ELSE RemoveFront(QueueRemoveAt(q, 0).q, k - 1)

\* A selection that records the track it replaces, as Queue::next does.
SelectQueueTrackRecords(q, index) ==
    LET rest == RemoveFront(q, index + 1)
    IN [QueueRestoreQueue(rest, rest.tracks, Some(q.tracks[index + 1]))
          EXCEPT !.history = IF IsSome(q.current_track)
                             THEN Append(@, Unwrap(q.current_track))
                             ELSE @]

\* What play_selected_queue_track does to the queue (app.rs:2007-2016): the
\* chosen track is cloned, the front of the list is removed up to and
\* including it, and restore_queue installs it as the current track.
SelectQueueTrack(q, index) ==
    LET rest == RemoveFront(q, index + 1)
    IN QueueRestoreQueue(rest, rest.tracks, Some(q.tracks[index + 1]))

\* MusicPlayerApp::play_selected_queue_track
PlaySelectedQueueTrack ==
    IF selected_queue_item >= Len(tracks)
    THEN /\ NoTrack("invalid_selection", ThisQueue)
         /\ UNCHANGED view
    ELSE /\ StartTrack("play_selected", tracks[selected_queue_item + 1],
                       SelectQueueTrack(ThisQueue, selected_queue_item), FALSE)
         /\ queue_expanded' = FALSE
         /\ selected_queue_item' = 0

\* MusicPlayerApp::toggle_pause_or_start (Space)
CmdSpace ==
    /\ KeyPress
    /\ phase' = "recv"
    /\ IF queue_expanded /\ tracks # << >>
       THEN PlaySelectedQueueTrack
       ELSE /\ UNCHANGED view
            /\ IF \/ current_track = None /\ tracks # << >>
                  \/ player.state = "Stopped" /\ IsSome(current_track)
               THEN PlayCurrentOrFirst
               ELSE /\ player' = toggle_pause(player, now)
                    /\ pOp' = "toggle_pause"
                    /\ UNCHANGED << now, ppc, pArg, played >>
                    /\ aOp' = [Carry EXCEPT !.name = "toggle_pause"]
                    /\ HandlerFrame
                    /\ UNCHANGED << pending_play_track, currently_downloading, files,
                                    cleanups, reqs, downloaded_files, download_chan >>
                    /\ UNCHANGED qvars

\* A key of the queue view is pressed; these keys are not counted.
ViewKey ==
    /\ MainReady
    /\ AtInput
    /\ phase' = "recv"
    /\ HandlerFrame
    /\ UNCHANGED << pending_play_track, currently_downloading, files, cleanups, keys,
                    downloaded_files, download_chan >>
    /\ UNCHANGED nonDownload

\* KeyCode 't' (app.rs:1527-1534): the queue view opens or closes.
CmdToggleQueue ==
    /\ ViewKey
    /\ queue_expanded' = ~queue_expanded
    /\ reqs' = << >>
    /\ aOp' = [Carry EXCEPT !.name = "toggle_queue"]
    /\ UNCHANGED selected_queue_item

\* A hover request aimed at the track under the cursor.
HoverAtCursor(ts, index) ==
    IF index < Len(ts) THEN << Req(ts[index + 1], FALSE, "hover") >> ELSE << >>

\* MusicPlayerApp::trigger_hover_download: get_queue_slice(index + 15, 1), the
\* track it holds, if any, is requested.
TriggerHoverDownload(ts, index) ==
    LET download_index == index + HoverAhead
    IN IF download_index < Len(ts)
       THEN << Req(ts[download_index + 1], FALSE, "hover") >>
       ELSE << >>

\* The cursor has moved to `index`, or the list is empty and it has not.
CursorMoves(name, index) ==
    /\ ViewKey
    /\ queue_expanded
    /\ UNCHANGED queue_expanded
    /\ IF Len(tracks) > 0
       THEN /\ selected_queue_item' = index
            /\ reqs' = TriggerHoverDownload(tracks, index)
            /\ aOp' = [Carry EXCEPT !.name = name]
       ELSE /\ UNCHANGED selected_queue_item
            /\ reqs' = << >>
            /\ aOp' = [Carry EXCEPT !.name = "no_move"]

\* KeyCode 'j' with the queue view open: MusicPlayerApp::next_queue_item
CmdNextQueueItem ==
    CursorMoves("next_queue_item",
                IF Len(tracks) > 0 THEN (selected_queue_item + 1) % Len(tracks) ELSE 0)

\* KeyCode 'k' with the queue view open: MusicPlayerApp::prev_queue_item
CmdPrevQueueItem ==
    CursorMoves("prev_queue_item",
                IF selected_queue_item = 0
                THEN (IF Len(tracks) > 0 THEN Len(tracks) - 1 ELSE 0)
                ELSE selected_queue_item - 1)

\* app.rs:539-550 and 562-573: the waiting track is requested again when it is
\* not cached and no fetch is noted for it.
RetryPending ==
    /\ reqs' = IF /\ IsSome(pending_play_track)
                  /\ Unwrap(pending_play_track) \notin downloaded_files
                  /\ currently_downloading = None
               THEN << Req(Unwrap(pending_play_track), TRUE, "retry") >>
               ELSE << >>
    /\ UNCHANGED << pending_play_track, currently_downloading, cleanups >>
    /\ UNCHANGED pvars

\* Mutant of the comparison: every completion counts as the awaited one.
AwaitedAny(v) == TRUE

\* app.rs:518-519 and 556-557: the completed video is the one the loop is
\* waiting to play.
Awaited(v) == pending_play_track = Some(v)

\* app.rs:514-576: the loop takes one completion message off the channel.
\* aOp.waited notes whether the message was for the pending-play track.
AppReceive ==
    /\ MainReady
    /\ phase = "recv"
    /\ phase' = "advance"
    /\ download_chan # << >>
    /\ LET m      == Head(download_chan)
           waited == Awaited(m.vid)
       IN /\ download_chan' = Tail(download_chan)
          /\ aOp' = [(IF waited THEN NoApp ELSE Carry) EXCEPT
                                  !.name = "completion", !.vid = m.vid, !.ok = m.ok,
                                  !.waited = (pending_play_track = Some(m.vid))]
          /\ IF waited
             THEN /\ pending_play_track' = None
                  /\ currently_downloading' = None
                  /\ IF m.ok
                     THEN /\ \E outcome \in DecodeOutcomes(m.vid) : AppPlay(m.vid, outcome)
                          /\ reqs' = RequestSlice(tracks, PrefetchAhead, "prefetch")
                          /\ cleanups' = cleanups \cup {m.vid}
                     ELSE /\ reqs' = << >>
                          /\ UNCHANGED cleanups
                          /\ UNCHANGED pvars
             ELSE RetryPending
    /\ HandlerFrame
    /\ UNCHANGED << files, keys, view, downloaded_files >>
    /\ UNCHANGED qvars

\* The track playing runs to its end, GuardSecs or more after it began.
TrackRunsOut ==
    /\ phase \in Running
    /\ player.state = "Playing"
    /\ IsSome(player.sink)
    /\ Unwrap(player.sink).queued
    /\ ~Unwrap(player.sink).paused
    /\ now + GuardSecs <= MaxTime
    /\ now' = now + GuardSecs
    /\ player' = [player EXCEPT !.sink = SinkStop(@)]
    /\ pOp' = "drain"
    /\ UNCHANGED << ppc, pArg, played >>
    /\ AppIdle
    /\ UNCHANGED << qvars, dvars >>

\* app.rs:578-589: the loop finds the track finished and moves on, or stops
\* the engine when no track is pending.
AutoAdvance ==
    /\ MainReady
    /\ AtAdvance
    /\ TrackOver
    /\ phase' = "input"
    /\ keys' = keys
    /\ UNCHANGED view
    /\ IF tracks # << >>
       THEN PlayNext
       ELSE /\ player' = stop(player)
            /\ pOp' = "stop"
            /\ played' = None
            /\ UNCHANGED << now, ppc, pArg >>
            /\ aOp' = [NoApp EXCEPT !.name = "auto_stop"]
            /\ HandlerFrame
            /\ UNCHANGED << pending_play_track, currently_downloading, files, cleanups,
                            reqs, downloaded_files, download_chan >>
            /\ UNCHANGED qvars

\* The keyboard poll finds no key pressed (app.rs:594-602); the loop goes
\* round.
LoopAround ==
    /\ MainReady
    /\ phase # "recv"
    /\ AtInput
    /\ phase' = "recv"
    /\ aOp' = Carry
    /\ UNCHANGED << pending_play_track, currently_downloading, files, cleanups, reqs, keys, view >>
    /\ UNCHANGED dvars
    /\ UNCHANGED nonDownload

\* Five minutes outlast every run of steps that waits for nothing: when they
\* are over no request() call is under way, no task is between the end of its
\* fetch and its last step, and the loop has emptied the channel.
Quiet ==
    /\ mpc = "idle"
    /\ reqs = << >>
    /\ download_chan = << >>
    /\ \A i \in TaskIds : task[i].pc \in {"unused", "fetch", "done", "aborted"}

\* app.rs:531-535: five minutes after a track was played on arrival its file
\* is removed; the cache map keeps the entry.
CleanupFires(v) ==
    /\ v \in cleanups
    /\ Quiet
    /\ cleanups' = cleanups \ {v}
    /\ files' = files \ {v}
    /\ aOp' = Carry
    /\ UNCHANGED << pending_play_track, currently_downloading, reqs, phase, keys, view >>
    /\ UNCHANGED dvars
    /\ UNCHANGED nonDownload

\* KeyCode 'q'; app.rs:604-614: the loop ends; every handle in the registry is drained and
\* aborted.  abort() cancels a task at its await point, the wait for the
\* blocking fetch; a task past it runs on.
Quit ==
    /\ KeyPress
    /\ phase' = "grace"
    /\ UNCHANGED view
    /\ background_tasks' = {}
    /\ task' = [i \in TaskIds |->
                   IF task[i].pc = "fetch" THEN [NoTask EXCEPT !.pc = "aborted"] ELSE task[i]]
    /\ aOp' = [NoApp EXCEPT !.name = "quit"]
    /\ lastCall' = NoCall
    /\ UNCHANGED << active_downloads, downloading_videos, downloaded_files,
                    failed_downloads, download_chan, mpc, reqVid, reqObs, seen,
                    underflowed >>
    /\ UNCHANGED << pending_play_track, currently_downloading, files, cleanups, reqs >>
    /\ UNCHANGED nonDownload

\* app.rs:615-625: the 100 ms sleep is over; save_history and save_queue run.
\* The sleep waits for no task.
Persist ==
    /\ phase = "grace"
    /\ phase' = "saved"
    /\ aOp' = [NoApp EXCEPT !.name = "save"]
    /\ UNCHANGED << pending_play_track, currently_downloading, files, cleanups, reqs, keys, view >>
    /\ UNCHANGED dvars
    /\ UNCHANGED nonDownload

\* add_selected_to_queue (Enter on a search result, app.rs:2535-2612): a
\* result longer than 300 s is refused; otherwise the handler spawns a fetch
\* task of its own, pushes its handle to the registry and adds the track to
\* the queue.  It consults neither the counter nor any of the three maps.
\* The queue file it then writes is not part of the state.
AddSelectedToQueue(v, long) ==
    /\ mpc = "idle"
    /\ reqs = << >>
    /\ v <= seen + 1
    /\ seen' = IF v > seen THEN v ELSE seen
    /\ IF long
       THEN /\ aOp' = [Carry EXCEPT !.name = "add_too_long", !.vid = v]
            /\ UNCHANGED << task, background_tasks, qvars >>
       ELSE /\ Cardinality(Spawned) < MaxSpawns
            /\ LET i == Cardinality(Spawned) + 1
               IN /\ task' = [task EXCEPT ![i] = [vid |-> v, pc |-> "direct", ok |-> FALSE]]
                  /\ background_tasks' = background_tasks \cup {i}
            /\ QueueBecomes(QueueAdd(ThisQueue, v))
            /\ aOp' = [Carry EXCEPT !.name = "add_selected_to_queue", !.vid = v]
    /\ lastCall' = NoCall
    /\ UNCHANGED << active_downloads, downloading_videos, downloaded_files,
                    failed_downloads, download_chan, mpc, reqVid, reqObs,
                    underflowed >>
    /\ UNCHANGED << pending_play_track, currently_downloading, files, cleanups, reqs, phase, keys, view >>
    /\ UNCHANGED pvars

\* The task spawned by add_selected_to_queue (app.rs:2564-2591): the blocking
\* fetch has ended; its result goes to the cache map or to the failure map,
\* and the task ends without a message, a decrement or a mark to remove.
TaskRecordDirect(i, outcome) ==
    /\ task[i].pc = "direct"
    /\ task' = [task EXCEPT ![i].pc = "done", ![i].ok = (outcome = "ok")]
    /\ IF outcome = "ok"
       THEN /\ downloaded_files' = downloaded_files \cup {task[i].vid}
            /\ files' = files \cup {task[i].vid}
            /\ UNCHANGED failed_downloads
       ELSE /\ failed_downloads' = failed_downloads \cup {task[i].vid}
            /\ UNCHANGED << downloaded_files, files >>
    /\ aOp' = Carry
    /\ UNCHANGED << pending_play_track, currently_downloading, cleanups, reqs, phase, keys, view >>
    /\ lastCall' = NoCall
    /\ UNCHANGED << active_downloads, downloading_videos, download_chan,
                    background_tasks, mpc, reqVid, reqObs, underflowed >>
    /\ UNCHANGED << seen, nonDownload >>

NextApp ==
    \/ \E saved \in SavedQueues : LoadQueue(saved)
    \/ AppCallRequest
    \/ ReqCheckCount
    \/ ReqCheckCache
    \/ ReqCheckFailed
    \/ ReqCheckInflight
    \/ ReqIncrement
    \/ ReqSpawn
    \/ \E i \in TaskIds, outcome \in FetchOutcomes : TaskRecord(i, outcome)
    \/ \E i \in TaskIds : TaskSend(i)
    \/ \E i \in TaskIds : TaskDecrement(i)
    \/ \E i \in TaskIds : TaskRemove(i)
    \/ AppReceive
    \/ CmdPlayNext
    \/ CmdPlayPrevious
    \/ CmdSpace
    \/ TrackRunsOut
    \/ AutoAdvance
    \/ LoopAround
    \/ \E v \in VideoIds : CleanupFires(v)
    \/ Quit
    \/ Persist

(***************************************************************************)
(*                          SPECIFICATIONS                                 *)
(***************************************************************************)
\* The state after construction (MusicPlayerApp::new).
Init ==
    /\ InitQueue
    /\ InitPlayerDevice(TRUE)
    /\ InitDownload
    /\ InitApp

\* The same, on a machine with or without an audio output device.
InitAnyDevice ==
    /\ InitQueue
    /\ \E device \in BOOLEAN : InitPlayerDevice(device)
    /\ InitDownload
    /\ InitApp

\* The queue driven through its own calls.
SpecQueue == Init /\ [][NextQueue]_vars

\* The playback engine driven through its public calls, with and without an
\* audio device.
SpecPlayer == InitAnyDevice /\ [][NextPlayer]_vars

\* The download coordinator: request() calls of the main thread interleaved
\* with the steps of the background fetch tasks.
SpecDownload == Init /\ [][NextDownload]_vars

\* The main thread runs a request() it has entered to its return, and a
\* spawned task runs each step of its body: spawn_download_with_limit is
\* synchronous, the worker threads are never starved, and the external fetch
\* is taken to terminate.  Whether and when request() is called, and when the
\* loop takes a message off the channel, is left open.
FairDownload ==
    /\ WF_vars(ReqCheckCount)
    /\ WF_vars(ReqCheckCache)
    /\ WF_vars(ReqCheckFailed)
    /\ WF_vars(ReqCheckInflight)
    /\ WF_vars(ReqIncrement)
    /\ WF_vars(ReqSpawn)
    /\ \A i \in TaskIds :
          /\ WF_vars(\E outcome \in FetchOutcomes : TaskRecord(i, outcome))
          /\ WF_vars(TaskSend(i))
          /\ WF_vars(TaskDecrement(i))
          /\ WF_vars(TaskRemove(i))

SpecDownloadFair == Init /\ [][NextDownload]_vars /\ FairDownload

\* The application: the main loop's handlers, the request() calls they make
\* and the fetch tasks, from start-up to shutdown.
SpecApp == Init /\ [][NextApp]_vars

\* The playback engine driven through its public calls, the volume setter
\* among them, with and without an audio device.
NextVolume ==
    \/ \E song \in Songs, d \in DurationHints : DoPlay(song, d)
    \/ \E outcome \in PlayOutcomes : DoPlayReturn(outcome)
    \/ DoApplySeek
    \/ DoApplySeekShift
    \/ DoPause
    \/ DoResume
    \/ DoTogglePause
    \/ DoStop
    \/ \E seconds \in (0 - 1)..(TrackDuration + 1) : DoSeek(seconds)
    \/ \E seconds \in {0 - SeekStep, SeekStep} : DoSeekRelative(seconds)
    \/ \E v \in VolumeLevels : DoSetVolume(v)
    \/ Tick
    \/ SinkDrain

SpecVolume == InitAnyDevice /\ [][NextVolume]_vars

\* The queue driven through its own calls, removal by position among them.
NextQueueEdit ==
    \/ \E t \in TrackIds : DoAdd(t)
    \/ DoNext
    \/ DoPrevious
    \/ DoStartOrNext
    \/ \E index \in RemoveIndexes : DoRemoveAt(index)

SpecQueueEdit == Init /\ [][NextQueueEdit]_vars

\* The download coordinator together with the enqueueing of search results:
\* request() calls and Enter presses of the main thread interleaved with the
\* steps of the fetch tasks of both kinds.
NextEnqueue ==
    \/ \E v \in VideoIds : CallRequest(v)
    \/ ReqCheckCount
    \/ ReqCheckCache
    \/ ReqCheckFailed
    \/ ReqCheckInflight
    \/ ReqIncrement
    \/ ReqSpawn
    \/ \E i \in TaskIds, outcome \in FetchOutcomes : TaskRecord(i, outcome)
    \/ \E i \in TaskIds : TaskSend(i)
    \/ \E i \in TaskIds : TaskDecrement(i)
    \/ \E i \in TaskIds : TaskRemove(i)
    \/ Receive
    \/ \E v \in VideoIds, long \in BOOLEAN : AddSelectedToQueue(v, long)
    \/ \E i \in TaskIds, outcome \in FetchOutcomes : TaskRecordDirect(i, outcome)

SpecEnqueue == Init /\ [][NextEnqueue]_vars

\* The queue as the loop drives it between the loading of the history file
\* and its saving: tracks are added, the user navigates and starts playback,
\* the history is saved.
NextHistory ==
    \/ \E t \in TrackIds : DoAdd(t)
    \/ DoPlayNextQueue
    \/ DoPlayPreviousQueue
    \/ DoStartOrNext
    \/ DoSaveHistory

\* The state after construction when a history file was found.
InitWithHistory ==
    /\ InitHistory
    /\ InitPlayerDevice(TRUE)
    /\ InitDownload
    /\ InitApp

SpecHistory == InitWithHistory /\ [][NextHistory]_vars


(***************************************************************************)
(*                     PROPERTIES OF THE QUEUE                             *)
(***************************************************************************)
\* The tracks of a sequence, counted with multiplicity.
BagOfSeq(s) ==
    [x \in {s[i] : i \in DOMAIN s} |-> Cardinality({i \in DOMAIN s : s[i] = x})]

OptionSeq(o) == IF IsSome(o) THEN << Unwrap(o) >> ELSE << >>

QueueSize(q) == Len(q.history) + Len(q.tracks) + Len(OptionSeq(q.current_track))

QueueBag(q) ==
    BagOfSeq(q.history) (+) BagOfSeq(q.tracks) (+) BagOfSeq(OptionSeq(q.current_track))

\* C1: from an empty queue, after any sequence of add / next / previous calls,
\* history.len() + pending.len() + (1 if current) equals the number of tracks
\* added, and the tracks held are exactly the tracks added, each as often as
\* it was added (none duplicated, none lost).
C1_Conservation ==
    /\ QueueSize(ThisQueue) = Len(added)
    /\ QueueBag(ThisQueue) = BagOfSeq(added)

\* C1 witness: all tracks added and, after next and previous calls, spread
\* over history, current and pending at once.
C1_Witness ==
    /\ Len(added) = MaxAdds
    /\ history # << >>
    /\ IsSome(current_track)
    /\ tracks # << >>
    /\ qOp = "previous"

\* C2 as stated: previous() then next() leaves current equal to what it was
\* before the previous() call, whether a track or no track was current.
C2_RoundTripAnyCurrent ==
    (qOp2 = "previous" /\ qOp = "next") => current_track = qCur2

\* C2 amended: when a track is current, previous() then next() makes that
\* same track current again.
C2_RoundTripWhenCurrentSet ==
    (qOp2 = "previous" /\ qOp = "next" /\ IsSome(qCur2)) => current_track = qCur2

\* C2 witness: the round trip was made from a state with a current track, a
\* non-empty history and further tracks pending behind the restored one.
C2_Witness ==
    /\ qOp2 = "previous"
    /\ qOp = "next"
    /\ IsSome(qCur2)
    /\ IsSome(qPre.current_track)
    /\ Len(qPre.tracks) >= 2

\* C3: next() appends a set current to the back of history, then pops the
\* front of pending into current and returns it; with pending empty it
\* returns None and current becomes None.
C3_NextContract ==
    qOp = "next" =>
        /\ history = qPre.history \o OptionSeq(qPre.current_track)
        /\ IF qPre.tracks # << >>
           THEN /\ current_track = Some(Head(qPre.tracks))
                /\ qRet = Some(Head(qPre.tracks))
                /\ tracks = Tail(qPre.tracks)
           ELSE /\ current_track = None
                /\ qRet = None
                /\ tracks = << >>

\* C3 witness: next() was called with a track current and nothing pending.
C3_Witness ==
    /\ qOp = "next"
    /\ IsSome(qPre.current_track)
    /\ qPre.tracks = << >>
    /\ current_track = None

\* The scenario of C4 uses two distinct tracks A and B.
ScenarioA == CHOOSE t \in TrackIds : TRUE

ScenarioB == CHOOSE t \in TrackIds : t # ScenarioA

\* C4: previous() pushes a set current to the front of pending, then pops the
\* back of history into current and returns it; with history empty it returns
\* None and current becomes None.  Scenario from pending = [A, B]: next gives
\* current A, history []; next gives current B, history [A]; previous gives
\* current A, pending [B], history [].
C4_PreviousContract ==
    /\ qOp = "previous" =>
        /\ tracks = OptionSeq(qPre.current_track) \o qPre.tracks
        /\ IF qPre.history # << >>
           THEN /\ current_track = Some(qPre.history[Len(qPre.history)])
                /\ qRet = current_track
                /\ history = SubSeq(qPre.history, 1, Len(qPre.history) - 1)
           ELSE /\ current_track = None
                /\ qRet = None
                /\ history = << >>
    /\ (qOp = "next" /\ qPre = QueueOf(<< ScenarioA, ScenarioB >>, None, << >>))
          => ThisQueue = QueueOf(<< ScenarioB >>, Some(ScenarioA), << >>)
    /\ (qOp = "next" /\ qPre = QueueOf(<< ScenarioB >>, Some(ScenarioA), << >>))
          => ThisQueue = QueueOf(<< >>, Some(ScenarioB), << ScenarioA >>)
    /\ (qOp = "previous" /\ qPre = QueueOf(<< >>, Some(ScenarioB), << ScenarioA >>))
          => ThisQueue = QueueOf(<< ScenarioB >>, Some(ScenarioA), << >>)

\* C4 witness: the last step of the scenario has been taken.
C4_Witness ==
    /\ qOp = "previous"
    /\ qPre = QueueOf(<< >>, Some(ScenarioB), << ScenarioA >>)
    /\ added = << ScenarioA, ScenarioB >>

\* C5: start_or_next() with nothing current and pending non-empty pops the
\* front of pending into current, returns it and leaves history unchanged; in
\* every other state its result and effect are those of next().
C5_StartOrNext ==
    qOp = "start_or_next" =>
        /\ (qPre.current_track = None /\ qPre.tracks # << >>) =>
              /\ current_track = Some(Head(qPre.tracks))
              /\ qRet = Some(Head(qPre.tracks))
              /\ tracks = Tail(qPre.tracks)
              /\ history = qPre.history
        /\ ~(qPre.current_track = None /\ qPre.tracks # << >>) =>
              /\ ThisQueue = QueueNext(qPre).q
              /\ qRet = QueueNext(qPre).ret

\* C5 witness: start_or_next() started playback from pending = [A, B] with
\* nothing current.
C5_Witness ==
    /\ qOp = "start_or_next"
    /\ qPre.current_track = None
    /\ Len(qPre.tracks) = 2
    /\ history = qPre.history
    /\ Len(tracks) = 1

\* C5 witness of the other branch: start_or_next() with a track current.
C5_WitnessNextBranch ==
    /\ qOp = "start_or_next"
    /\ IsSome(qPre.current_track)
    /\ history # qPre.history


(***************************************************************************)
(*                 PROPERTIES OF THE PLAYBACK ENGINE                       *)
(***************************************************************************)
\* elapsed() as the specification words it: (now or the pause timestamp)
\* minus the start time minus the paused total, never below zero, and zero
\* when no start time is recorded.
Elapsed ==
    IF player.start_time = None THEN 0
    ELSE LET upto == IF player.pause_time = None THEN now ELSE Unwrap(player.pause_time)
             e    == upto - Unwrap(player.start_time) - player.total_paused_duration
         IN IF e < 0 THEN 0 ELSE e

SinkReportsEmpty == IsSome(player.sink) /\ ~Unwrap(player.sink).queued

\* C6: is_finished() is true only when the sink reports no queued audio, the
\* state is exactly Playing, a start time is recorded and elapsed() >= 2 s;
\* so it is false in Loading, Paused and Stopped and whenever elapsed < 2 s,
\* whatever the sink holds.
C6_IsFinishedOnlyWhen ==
    /\ is_finished(player, now) =>
          /\ SinkReportsEmpty
          /\ player.state = "Playing"
          /\ IsSome(player.start_time)
          /\ Elapsed >= GuardSecs
    /\ player.state \in {"Loading", "Paused", "Stopped"} => ~is_finished(player, now)
    /\ Elapsed < GuardSecs => ~is_finished(player, now)

\* C6 witness: a track played past the guard and the sink ran empty, so
\* is_finished() answers true.
C6_Witness ==
    /\ is_finished(player, now)
    /\ pOp \in {"drain", "tick"}

\* C6, the case the state check is there for: a reload is under way over a
\* track that had played past the guard; the sink is empty and the old start
\* time is still recorded.
C6_WitnessLoading ==
    /\ ppc = "decode"
    /\ player.state = "Loading"
    /\ SinkReportsEmpty
    /\ Elapsed >= GuardSecs

\* C7: with an audio device, play_with_duration first sets Loading and
\* empties the sink; on success it ends Playing with start time = now, no
\* pause timestamp, a zero paused total and the duration hint when that is
\* > 0; on a decode failure, an append failure or a panic it ends Stopped
\* with the start time cleared, and is_finished() is false.
C7_LoadAndPlay ==
    /\ ppc = "decode" =>
          /\ player.state = "Loading"
          /\ SinkReportsEmpty
    /\ pOp = "play_ok" =>
          /\ player.state = "Playing"
          /\ player.start_time = Some(now)
          /\ player.pause_time = None
          /\ player.total_paused_duration = 0
          /\ pArg.known_duration > 0 => player.duration = pArg.known_duration
    /\ pOp = "play_failed" =>
          /\ player.state = "Stopped"
          /\ player.start_time = None
          /\ ~is_finished(player, now)

\* C7 witness: a load called while another track was Playing has failed.
C7_Witness ==
    /\ pOp = "play_failed"
    /\ pArg.from = "Playing"
    /\ pArg.caller = "play"
    /\ now >= GuardSecs

\* C7 witness of the success arm: a load called while Paused, with a duration
\* hint, has succeeded.
C7_WitnessSuccess ==
    /\ pOp = "play_ok"
    /\ pArg.from = "Paused"
    /\ pArg.known_duration > 0
    /\ now > 0

\* The timing fields of the engine.
TimingOf(p) == << p.start_time, p.pause_time, p.total_paused_duration >>

\* C16: pause() in a state other than Playing changes nothing in the engine
\* (no pause timestamp, same state, same timing fields); pause() while
\* Playing records the pause timestamp and ends Paused; a second pause()
\* changes nothing further.
C16_PauseOnlyWhenPlaying ==
    [][pOp' = "pause" =>
          IF player.state = "Playing"
          THEN /\ player'.state = "Paused"
               /\ player'.pause_time = Some(now)
          ELSE /\ player'.state = player.state
               /\ TimingOf(player') = TimingOf(player)]_vars

\* C17: after a successful load followed only by pause / resume / toggle
\* calls, elapsed() equals the clock time spent Playing since the load (so it
\* stands still while Paused); elapsed() is never negative and is 0 when no
\* start time is recorded; a resume of a paused engine adds exactly the paused
\* interval to the paused total and clears the pause timestamp.
C17_ElapsedIsTimePlaying ==
    /\ [](/\ IsSome(played) =>
               /\ get_time_pos(player, now) = Unwrap(played)
               /\ Elapsed = Unwrap(played)
          /\ get_time_pos(player, now) >= 0
          /\ player.start_time = None => get_time_pos(player, now) = 0)
    /\ [][(/\ \/ pOp' = "resume"
              \/ pOp' = "toggle_pause" /\ player.state = "Paused"
           /\ IsSome(player.pause_time)) =>
             /\ player'.total_paused_duration =
                   player.total_paused_duration + (now - Unwrap(player.pause_time))
             /\ player'.pause_time = None]_vars

\* C17 witness: a loaded track has played, was paused for a while and plays
\* again.
C17_Witness ==
    /\ IsSome(played)
    /\ Unwrap(played) >= 1
    /\ player.total_paused_duration >= 1
    /\ player.state = "Playing"
    /\ pOp \in {"resume", "toggle_pause"}

\* What stop() promises of the engine it leaves behind.
StoppedClean(p, t) ==
    /\ p.state = "Stopped"
    /\ IsSome(p.sink) => ~Unwrap(p.sink).queued
    /\ p.start_time = None
    /\ p.pause_time = None
    /\ p.total_paused_duration = 0
    /\ get_time_pos(p, t) = 0
    /\ ~is_finished(p, t)

\* C18: after stop() the engine is Stopped, the sink is empty, the start time
\* and the pause timestamp are cleared and the paused total is 0, so elapsed()
\* is 0 and is_finished() is false; and this is so from each of the four
\* states the engine could be stopped in.
C18_StopResets ==
    /\ pOp = "stop" => StoppedClean(player, now)
    /\ \A st \in PlayerStates : StoppedClean(stop([player EXCEPT !.state = st]), now)

\* C18 witness: stop() has acted on an engine that had loaded a track, had
\* been paused and had accumulated time.
C18_Witness ==
    /\ pOp = "stop"
    /\ player.current_title # ""
    /\ IsSome(player.sink)
    /\ Unwrap(player.sink).paused
    /\ now >= 1

\* C19: after seek(target) and after seek_relative(delta) the pending seek
\* position, when one is stored, lies within [0, duration], for every target
\* and every stored duration, 0 (length unknown) included.
C19_SeekClamped ==
    (pOp \in {"seek", "seek_relative"} /\ IsSome(player.seek_position)) =>
        /\ 0 <= Unwrap(player.seek_position)
        /\ Unwrap(player.seek_position) <= player.duration

(***************************************************************************)
(*              PROPERTIES OF THE DOWNLOAD COORDINATOR                     *)
(***************************************************************************)
\* A request() call has just returned.
Returned == lastCall.vid # 0

\* The fetches accepted by request() whose task has not yet given its slot
\* back: the completion is not posted, or posted and the counter not yet
\* decremented.
Outstanding == {i \in TaskIds : task[i].pc \in {"fetch", "send", "dec"}}

\* C8: a request() call returns false and leaves the in-flight set, the
\* counter, both maps, the task registry and the channel as they were,
\* launching no fetch, whenever the counter is at the ceiling when the call
\* reads it or the video is cached, failed or in flight when the call begins;
\* in every other case it returns true, has added the video to the in-flight
\* set and incremented the counter, and has launched exactly one fetch.
C8_RequestContract ==
    Returned =>
        IF lastCall.ceiling \/ lastCall.known
        THEN /\ lastCall.ret = FALSE
             /\ ~lastCall.wrote
             /\ lastCall.launched = 0
        ELSE /\ lastCall.ret = TRUE
             /\ lastCall.wrote
             /\ lastCall.launched = 1
             /\ lastCall.vid \in downloading_videos

\* C9: a request() call that follows immediately an accepted call for the
\* same video is rejected and launches no fetch, whatever the task of the first
\* call does meanwhile.
C9_SecondRequestRejected ==
    (Returned /\ lastCall.repeat) => (lastCall.ret = FALSE /\ lastCall.launched = 0)

\* C10: under every interleaving of request() calls with the steps of the
\* fetch tasks the counter stays within 0..ceiling, is never decremented at
\* zero, and the accepted fetches still holding a slot never number more than
\* the ceiling.
C10_CounterWithinCeiling ==
    /\ active_downloads \in 0..MaxConcurrent
    /\ ~underflowed
    /\ Cardinality(Outstanding) <= MaxConcurrent
    /\ Cardinality(Outstanding) <= active_downloads

\* C10: the counter is at the ceiling, a request() has just been turned away
\* there, and a fetch task has posted its completion and is about to
\* decrement the counter.
C10_Witness ==
    /\ Returned
    /\ lastCall.ceiling
    /\ active_downloads = MaxConcurrent
    /\ \E i \in TaskIds : task[i].pc = "dec"

\* The fetches whose completion message is posted.
Posted == {i \in TaskIds : task[i].pc \in {"dec", "remove", "done"}}

\* C11: with ceiling N, a request() is never accepted on top of N accepted
\* fetches none of which has posted its completion; and of N accepted fetches,
\* once one has posted its completion message, a request() for a further video
\* that is neither cached, failed nor in flight is not turned away at the
\* ceiling.
C11_SlotFreedByCompletion ==
    /\ (Returned /\ lastCall.ret) =>
          Cardinality({i \in TaskIds : task[i].pc \in {"fetch", "send"}}) <= MaxConcurrent
    /\ (Returned /\ ~lastCall.known /\ Cardinality(Spawned) = MaxConcurrent
          /\ Posted # {}) => lastCall.ret

\* The step of task i from one position of its body to the next.
TaskMoves(i, from, to) == task[i].pc = from /\ task'[i].pc = to

\* C12, the steps of a fetch task: the result is recorded in the cache map
\* (success) or in the failure map (error, task error) before it is posted;
\* posting appends exactly one (video_id, result) message and nothing else
\* appends to the channel; the counter goes down by exactly one at the task's
\* decrement and at no other step; after the task's last step its video ID is
\* not in the in-flight set; a task never steps backwards.
C12_TaskSteps ==
    /\ \A i \in TaskIds :
          /\ TaskMoves(i, "fetch", "send") =>
                IF task'[i].ok
                THEN task[i].vid \in downloaded_files'
                ELSE task[i].vid \in failed_downloads'
          /\ TaskMoves(i, "send", "dec") =>
                /\ IF task[i].ok
                   THEN task[i].vid \in downloaded_files
                   ELSE task[i].vid \in failed_downloads
                /\ download_chan' =
                      Append(download_chan, [vid |-> task[i].vid, ok |-> task[i].ok])
          /\ TaskMoves(i, "dec", "remove") => active_downloads' = active_downloads - 1
          /\ TaskMoves(i, "remove", "done") => task[i].vid \notin downloading_videos'
          /\ task'[i].pc # task[i].pc =>
                << task[i].pc, task'[i].pc >> \in
                   { << "unused", "fetch" >>, << "fetch", "send" >>, << "send", "dec" >>,
                     << "dec", "remove" >>, << "remove", "done" >> }
    /\ Len(download_chan') > Len(download_chan) =>
          \E i \in TaskIds : TaskMoves(i, "send", "dec")
    /\ active_downloads' < active_downloads =>
          \E i \in TaskIds : TaskMoves(i, "dec", "remove")

\* C12: every accepted fetch runs through its steps as above, and under
\* fairness every spawned task ends and every video ID in the in-flight set
\* eventually leaves it.
C12_EveryFetchCompletes ==
    /\ [][C12_TaskSteps]_vars
    /\ \A i \in TaskIds : (task[i].pc = "fetch") ~> (task[i].pc = "done")
    /\ \A v \in VideoIds : (v \in downloading_videos) ~> (v \notin downloading_videos)

\* C12: a task that failed and a task that succeeded have both ended, their
\* messages are posted, and nothing is in flight any more.
C12_Witness ==
    /\ \E i, j \in TaskIds : i # j /\ task[i].pc = "done" /\ task[j].pc = "done"
    /\ downloaded_files # {}
    /\ failed_downloads # {}
    /\ Len(download_chan) >= 2
    /\ downloading_videos = {}
    /\ active_downloads = 0



(***************************************************************************)
(*                  PROPERTIES OF THE APPLICATION LOOP                     *)
(***************************************************************************)

\* Every fetch task has posted its message and every message has been taken:
\* no completion is left to come.
NoCompletionToCome ==
    /\ download_chan = << >>
    /\ \A i \in TaskIds : task[i].pc \notin {"fetch", "record", "send"}

\* C13: a waiting track that was turned away at the ceiling is requested
\* again when another fetch completes and that request is accepted, so that
\* the track never waits indefinitely: the retry made on the last completion
\* to come, for a video that is neither cached, failed nor in flight, returns
\* true.
C13_WaitingTrackFetched ==
    (aOp.name = "retry" /\ ~lastCall.known /\ NoCompletionToCome) => aOp.ok

C15_CachedFileChecked ==
    aOp.cached => /\ aOp.ondisk
                  /\ aOp.vid \in downloaded_files

\* Persistence starts only from the grace period, with the registry drained
\* and no task left fetching; once it has started the three maps are frozen.
PersistenceLast ==
    /\ (phase # "saved" /\ phase' = "saved")
          => /\ phase = "grace"
             /\ background_tasks = {}
             /\ \A i \in TaskIds : task[i].pc # "fetch"
    /\ (phase = "saved")
          => UNCHANGED << downloaded_files, failed_downloads, downloading_videos >>

\* C20: while the loop runs every fetch task spawned has its handle in the
\* registry; persistence starts only after the registry was drained, every
\* task still fetching aborted and the grace period spent; and once
\* persistence has started no fetch task changes the cache map, the failure
\* map or the in-flight set.
C20_NoTaskAfterPersistence ==
    /\ [](phase \in Running => Spawned \subseteq background_tasks)
    /\ [][PersistenceLast]_vars

\* ---------------------------------------------------------------------------
\* PROPERTIES OF THE PLAYBACK ENGINE WITHOUT A DEVICE, ITS VOLUME AND ITS SEEK
\* ---------------------------------------------------------------------------

\* C21: an engine built without an audio device (no sink) is untouched by
\* every playback call: after any sequence of load-and-play, pause, resume,
\* toggle, stop, seek and apply_seek its state is Stopped, it has no start
\* time, no pause timestamp and a zero paused total, and is_finished() is
\* false.
C21_NoDeviceNoOp ==
    player.sink = None =>
        /\ player.state = "Stopped"
        /\ player.start_time = None
        /\ player.pause_time = None
        /\ player.total_paused_duration = 0
        /\ ~is_finished(player, now)

\* C24: in every state of the engine, with or without a device, set_volume(v)
\* followed by get_volume() gives exactly v for every v in 0..100; and no
\* other call of the engine (load, pause, resume, toggle, stop, seek,
\* apply_seek) changes the stored volume.
C24_VolumeRoundTrip ==
    /\ [](\A v \in 0..100 : get_volume(set_volume(player, v)) = v)
    /\ [][/\ \A v \in VolumeLevels : DoSetVolume(v) => get_volume(player') = v
          /\ pOp' # "set_volume" => get_volume(player') = get_volume(player)]_vars

\* C24 witness: the volume was set on an engine without a device that a
\* pause() had left Paused, and it reads back as set.
C24_Witness ==
    /\ pOp = "set_volume"
    /\ player.sink = None
    /\ player.state = "Paused"
    /\ get_volume(player) = 37

\* C29: between calls of the engine its timing fields agree with its state
\* tag: Stopped has no start time, no pause timestamp and a zero paused
\* total; a pause timestamp is recorded exactly when the state is Paused; and
\* Playing and Paused have a start time.
C29_TimingMatchesState ==
    ppc = "idle" =>
        /\ player.state = "Stopped" =>
              /\ player.start_time = None
              /\ player.pause_time = None
              /\ player.total_paused_duration = 0
        /\ IsSome(player.pause_time) <=> player.state = "Paused"
        /\ player.state \in {"Playing", "Paused"} => IsSome(player.start_time)

\* C30: apply_seek() with a pending seek position p and a known file reloads
\* the file and, when the reload succeeded, leaves the engine Playing with the
\* start time moved back by p from the instant of the load and a zero paused
\* total, so that elapsed() counts from p, and with no pending seek; with no
\* pending seek or no known file it returns false and changes nothing.
C30_ApplySeek ==
    [][/\ (/\ pOp' = "apply_seek_true"
           /\ IsSome(player.sink)
           /\ player.state = "Playing") =>
             /\ IsSome(player.seek_position)
             /\ IsSome(player.start_time)
             /\ player'.state = "Playing"
             /\ player'.start_time =
                   Some(Unwrap(player.start_time) - Unwrap(player.seek_position))
             /\ player'.total_paused_duration = 0
             /\ get_time_pos(player', Unwrap(player.start_time)) =
                   Unwrap(player.seek_position)
             /\ player'.seek_position = None
       /\ pOp' = "apply_seek_false" =>
             /\ player.seek_position = None \/ player.current_file_path = None
             /\ player' = player]_vars

\* C30 witness: an apply_seek with a pending position of at least a second
\* has reloaded the file, and the engine plays from that position.
C30_Witness ==
    /\ pOp = "apply_seek_true"
    /\ pArg.seek_pos >= 1
    /\ player.state = "Playing"
    /\ player.seek_position = None
    /\ get_time_pos(player, now) = pArg.seek_pos

\* ---------------------------------------------------------------------------
\* PROPERTIES OF THE QUEUE UNDER REMOVAL
\* ---------------------------------------------------------------------------

\* C25: remove_at(index) with index below the number of pending tracks takes
\* out exactly the pending track at that position, returns it and keeps the
\* other pending tracks in their order; with index at or past the end (an
\* empty pending list included) it returns None and leaves pending as it
\* was; in both cases `current` and the history are unchanged.
C25_RemoveAtPendingOnly ==
    [][\A index \in RemoveIndexes :
          DoRemoveAt(index) =>
             /\ IF index < Len(tracks)
                THEN /\ qRet' = Some(tracks[index + 1])
                     /\ Len(tracks') = Len(tracks) - 1
                     /\ \A j \in 1..Len(tracks') :
                           tracks'[j] = IF j <= index THEN tracks[j]
                                                      ELSE tracks[j + 1]
                ELSE /\ qRet' = None
                     /\ tracks' = tracks
             /\ current_track' = current_track
             /\ history' = history]_vars

\* C25 witness: the first of two different pending tracks was removed while
\* another track was current; the second is what remains pending.
C25_Witness ==
    /\ qOp = "remove_at"
    /\ Len(qPre.tracks) = 2
    /\ qPre.tracks[1] # qPre.tracks[2]
    /\ qRet = Some(qPre.tracks[1])
    /\ tracks = << qPre.tracks[2] >>
    /\ IsSome(current_track)

\* ---------------------------------------------------------------------------
\* PROPERTIES OF THE FAILURE MAP
\* ---------------------------------------------------------------------------

Fetching == {i \in TaskIds : task[i].pc \in {"fetch", "direct"}}

\* C27: whatever the commands (enqueueing a search result included), no two
\* fetches for the same video ID run at the same time, and no more fetches
\* run at the same time than the ceiling allows.
C27_FetchesOnlyThroughRequest ==
    /\ \A i, j \in Fetching : i # j => task[i].vid # task[j].vid
    /\ Cardinality(Fetching) <= MaxConcurrent

\* ---------------------------------------------------------------------------
\* PROPERTIES OF THE APPLICATION LOOP: WHAT PLAYS, ADVANCING, FAILED TRACKS
\* ---------------------------------------------------------------------------

\* C23: whenever the engine is Playing or Paused, the track loaded in it is
\* the queue's current track.
C23_EngineTrackIsCurrent ==
    player.state \in {"Playing", "Paused"} =>
        /\ IsSome(current_track)
        /\ player.current_title = TrackTitle(Unwrap(current_track))

\* C26: when the loop's auto-advance has moved to a track that is not cached
\* and waits for its fetch, the loop does not auto-advance again before that
\* track was loaded or the user pressed a key that moves the queue.
C26_AdvancesOnce ==
    [][aOp.auto => ~(aOp'.name = "play_next" /\ keys' = keys)]_vars

\* C28: the completion of a failed fetch for the awaited track leaves that
\* track the queue's current one and ends the wait (pending_play_track and
\* currently_downloading are cleared); and the request() that a play command
\* makes for a track with a recorded failure launches a fetch, so that the
\* application does not wait for ever on a track that failed.
C28_FailedTrackRetried ==
    /\ [][(aOp'.name = "completion" /\ aOp'.waited /\ ~aOp'.ok) =>
             /\ current_track' = Some(aOp'.vid)
             /\ pending_play_track' = None
             /\ currently_downloading' = None]_vars
    /\ []((aOp.name = "play" /\ Returned /\ lastCall.failed) => aOp.ok)

\* ---------------------------------------------------------------------------
\* PROPERTIES OF THE PLAYBACK ENGINE: LOADING, SEEKING WHEN STOPPED, THE SINK
\* ---------------------------------------------------------------------------

\* C40: the engine is in Loading only inside play_with_duration: whenever no
\* load is under way (between the calls of the engine, and inside apply_seek
\* after its reload returned) the state is Stopped, Playing or Paused.
C40_NeverLeftLoading ==
    ppc # "decode" => player.state \in {"Stopped", "Playing", "Paused"}

\* C40 witness: a load that was entered on an engine with a device has
\* returned with a failure.
C40_Witness ==
    /\ ppc = "idle"
    /\ pOp = "play_failed"
    /\ IsSome(player.sink)
    /\ player.state = "Stopped"

\* C38: in every state where the engine has a device and is Playing, the
\* sink's transport is not paused; in particular after a successful load from
\* Paused.
C38_PlayingSinkRuns ==
    (IsSome(player.sink) /\ player.state = "Playing") => ~Unwrap(player.sink).paused

\* C36: an apply_seek that found a pending seek and a file on a Stopped
\* engine (after stop(), or after a failed load) leaves the engine Stopped
\* with nothing queued in the sink.
C36_SeekKeepsStopped ==
    (pOp = "apply_seek_true" /\ pArg.from = "Stopped") =>
        /\ player.state = "Stopped"
        /\ IsSome(player.sink) => ~Unwrap(player.sink).queued

\* The instant of the last successful load, right after the load or the
\* apply_seek that made it: apply_seek has moved start_time back by the seek
\* position.
LoadInstant ==
    Unwrap(player.start_time) + (IF pOp = "apply_seek_true" THEN pArg.seek_pos ELSE 0)

\* C37: right after a successful load, the reload of apply_seek included, and
\* for as long as less than GuardSecs have passed since it, is_finished() is
\* false even when the sink is found empty.
C37_GuardCoversReload ==
    (/\ ppc = "idle"
     /\ pOp \in {"play_ok", "apply_seek_true"}
     /\ IsSome(player.sink)
     /\ player.state = "Playing"
     /\ IsSome(player.start_time)
     /\ now - LoadInstant < GuardSecs) =>
        ~is_finished([player EXCEPT !.sink = SinkStop(@)], now)

\* ---------------------------------------------------------------------------
\* PROPERTIES OF THE HISTORY LIMIT
\* ---------------------------------------------------------------------------

\* The last n entries of a sequence.
LastOf(h, n) == SubSeq(h, Len(h) - n + 1, Len(h))

\* limit_history(max) keeps exactly the most recent min(len, max) entries in
\* their order, changes nothing else, and changes nothing when len <= max.
LimitKeepsNewest ==
    \A max \in 0..(MaxAdds + HistoryLimit) :
       LET q == QueueLimitHistory(ThisQueue, max)
           n == IF Len(history) < max THEN Len(history) ELSE max
       IN /\ q.history = LastOf(history, n)
          /\ q.tracks = tracks
          /\ q.current_track = current_track
          /\ Len(history) <= max => q = ThisQueue

\* C34 as stated: limit_history keeps the newest entries, and the history
\* holds at most HistoryLimit entries after every next / previous navigation
\* and after every history save.
C34_HistoryBoundedAfterEveryNavigation ==
    /\ LimitKeepsNewest
    /\ qOp \in {"play_next", "play_previous", "save_history"} =>
          Len(history) <= HistoryLimit

\* C34 amended: limit_history keeps the newest entries, and the history holds
\* at most HistoryLimit entries after every next / previous navigation that
\* returned a track and after every history save.
C34_HistoryBoundedWhenTrackReturned ==
    /\ LimitKeepsNewest
    /\ (qOp \in {"play_next", "play_previous"} /\ IsSome(qRet)) =>
          Len(history) <= HistoryLimit
    /\ qOp = "save_history" => Len(history) <= HistoryLimit

\* C34 witness: a next navigation from a full history with a current track
\* returned a track; the oldest entry was dropped and the track that was
\* current is the newest entry.
C34_Witness ==
    /\ qOp = "play_next"
    /\ IsSome(qRet)
    /\ Len(qPre.history) = HistoryLimit
    /\ IsSome(qPre.current_track)
    /\ Len(history) = HistoryLimit
    /\ history[HistoryLimit] = Unwrap(qPre.current_track)
    /\ history[1] = qPre.history[2]
    /\ qPre.history[1] # qPre.history[2]

\* The application with its queue view open or closed: start-up, the keys
\* that open the view and move its cursor, Space and 'n', the request() calls
\* they make and the fetch tasks.
NextQueueView ==
    \/ \E saved \in SavedQueues : LoadQueue(saved)
    \/ AppCallRequest
    \/ ReqCheckCount
    \/ ReqCheckCache
    \/ ReqCheckFailed
    \/ ReqCheckInflight
    \/ ReqIncrement
    \/ ReqSpawn
    \/ \E i \in TaskIds, outcome \in FetchOutcomes : TaskRecord(i, outcome)
    \/ \E i \in TaskIds : TaskSend(i)
    \/ \E i \in TaskIds : TaskDecrement(i)
    \/ \E i \in TaskIds : TaskRemove(i)
    \/ AppReceive
    \/ CmdPlayNext
    \/ CmdSpace
    \/ CmdToggleQueue
    \/ CmdNextQueueItem
    \/ CmdPrevQueueItem
    \/ LoopAround

SpecQueueView == Init /\ [][NextQueueView]_vars

\* C39: Space on the item at pending index i of the open queue view removes
\* pending[0..=i], makes the old pending[i] the current track and leaves the
\* history as it was, so that the track that was current and the i tracks
\* skipped are in none of the three collections afterwards; with the cursor at
\* or past the end of the list the command changes neither the queue nor the
\* player.
PlaySelectedEffect ==
    /\ aOp'.name = "play_selected" =>
          /\ selected_queue_item < Len(tracks)
          /\ tracks' = SubSeq(tracks, selected_queue_item + 2, Len(tracks))
          /\ current_track' = Some(tracks[selected_queue_item + 1])
          /\ history' = history
    /\ aOp'.name = "invalid_selection" =>
          /\ selected_queue_item >= Len(tracks)
          /\ UNCHANGED << tracks, current_track, history, player >>

C39_PlaySelectedDropsFront == [][PlaySelectedEffect]_vars

\* The second of two pending tracks was selected and played over a current
\* track.
C39_Witness ==
    /\ aOp.name = "play_selected"
    /\ aOp.vid = 3
    /\ current_track = Some(3)
    /\ tracks = << >>
    /\ history = << >>

\* C35: when the loop finds the playing track finished and nothing pending,
\* it stops the engine (state Stopped, timing cleared) and leaves the queue as
\* it is: the current track is still the track that finished, the history has
\* gained no entry, and the finish condition does not hold afterwards.
AfterAutoStop ==
    aOp.name = "auto_stop" =>
        /\ player.state = "Stopped"
        /\ player.start_time = None
        /\ player.pause_time = None
        /\ player.total_paused_duration = 0
        /\ ~TrackOver
        /\ IsSome(current_track)
        /\ player.current_title = TrackTitle(Unwrap(current_track))

AutoStopKeepsQueue ==
    aOp'.name = "auto_stop" => UNCHANGED << tracks, current_track, history >>

C35_StopsAtEndOfQueue == []AfterAutoStop /\ [][AutoStopKeepsQueue]_vars

\* A queue file of a longer session: LongQueue pending tracks, the video IDs
\* in rotation (the same video may be queued more than once), and the
\* current track `cur` or none.
LongSaved(cur) ==
    [tracks |-> [i \in 1..LongQueue |-> (i % NumVideos) + 1], current_track |-> cur]

\* The queue view over a long pending list: start-up, the keys that open the
\* view and move its cursor, the request() calls made and the fetch tasks.
NextHover ==
    \/ \E cur \in {None, Some(1)} : LoadQueue(LongSaved(cur))
    \/ AppCallRequest
    \/ ReqCheckCount
    \/ ReqCheckCache
    \/ ReqCheckFailed
    \/ ReqCheckInflight
    \/ ReqIncrement
    \/ ReqSpawn
    \/ \E i \in TaskIds, outcome \in FetchOutcomes : TaskRecord(i, outcome)
    \/ \E i \in TaskIds : TaskSend(i)
    \/ \E i \in TaskIds : TaskDecrement(i)
    \/ \E i \in TaskIds : TaskRemove(i)
    \/ AppReceive
    \/ CmdToggleQueue
    \/ CmdNextQueueItem
    \/ CmdPrevQueueItem
    \/ LoopAround

SpecHover == Init /\ [][NextHover]_vars

\* C32: a move of the cursor of the queue view, forward or backward with
\* wrap-around, to index i makes the handler call request() for exactly one
\* track, the one at pending index i + 15, and for none when i + 15 is past
\* the end of the list; the move changes neither the queue nor the player.
CursorMoveEffect ==
    aOp'.name \in {"next_queue_item", "prev_queue_item"} =>
        /\ selected_queue_item' =
              IF aOp'.name = "next_queue_item"
              THEN (selected_queue_item + 1) % Len(tracks)
              ELSE IF selected_queue_item = 0 THEN Len(tracks) - 1
              ELSE selected_queue_item - 1
        /\ IF selected_queue_item' + 15 < Len(tracks)
           THEN /\ Len(reqs') = 1
                /\ reqs'[1].vid = tracks[selected_queue_item' + 15 + 1]
           ELSE reqs' = << >>
        /\ UNCHANGED << tracks, current_track, history, player >>

C32_HoverRequestsFifteenAhead == [][CursorMoveEffect]_vars

\* The cursor moved forward to an index that has a track fifteen places
\* behind it, and that track is about to be requested.
C32_Witness ==
    /\ aOp.name = "next_queue_item"
    /\ selected_queue_item = 1
    /\ Len(tracks) = LongQueue
    /\ Len(reqs) = 1
    /\ reqs[1].vid = tracks[LongQueue]

\* The playlists a URL may name, as the tracks of at most 300 s they hold
\* (app.rs:2277-2284): none, or two.
Playlists == { << >>, << 2, 3 >> }

\* Enter in the playlist prompt (app.rs:1433-1437): load_playlist_from_url
\* has fetched the playlist; its tracks are added to the pending list and
\* trigger_smart_downloads requests the first pending tracks.
LoadPlaylistFromUrl(ts) ==
    /\ KeyPress
    /\ phase' = "recv"
    /\ UNCHANGED view
    /\ QueueBecomes([ThisQueue EXCEPT !.tracks = @ \o ts])
    /\ reqs' = RequestSlice(tracks \o ts, SmartAhead, "smart")
    /\ aOp' = [Carry EXCEPT !.name = "load_playlist"]
    /\ HandlerFrame
    /\ UNCHANGED << pending_play_track, currently_downloading, files, cleanups,
                    downloaded_files, download_chan >>
    /\ UNCHANGED pvars

\* The bulk loads: the queue restored at start-up and playlists loaded into
\* it, the request() calls they make and the fetch tasks.
NextBulkLoad ==
    \/ \E saved \in SavedQueues \cup {LongSaved(None)} : LoadQueue(saved)
    \/ \E ts \in Playlists : LoadPlaylistFromUrl(ts)
    \/ AppCallRequest
    \/ ReqCheckCount
    \/ ReqCheckCache
    \/ ReqCheckFailed
    \/ ReqCheckInflight
    \/ ReqIncrement
    \/ ReqSpawn
    \/ \E i \in TaskIds, outcome \in FetchOutcomes : TaskRecord(i, outcome)
    \/ \E i \in TaskIds : TaskSend(i)
    \/ \E i \in TaskIds : TaskDecrement(i)
    \/ \E i \in TaskIds : TaskRemove(i)
    \/ AppReceive
    \/ LoopAround

SpecBulkLoad == Init /\ [][NextBulkLoad]_vars

\* C33: a bulk load, the restore of the saved queue at start-up or the load
\* of a playlist into the queue, issues its requests in priority order: the
\* first is for the current track if there is one, otherwise for the front
\* pending track, and the following ones are for the pending tracks behind
\* it, in queue order; so the track needed first is asked for before the
\* ceiling can be reached by the buffer.
PriorityTrack ==
    IF IsSome(current_track) THEN current_track
    ELSE IF tracks # << >> THEN Some(tracks[1])
    ELSE None

BulkLoadIssues ==
    aOp'.name \in {"load_queue", "load_playlist"} =>
        /\ IsSome(PriorityTrack') =>
              /\ reqs' # << >>
              /\ reqs'[1].vid = Unwrap(PriorityTrack')
        /\ LET buffer == IF IsSome(current_track') /\ reqs' # << >>
                         THEN Tail(reqs') ELSE reqs'
           IN /\ Len(buffer) <= Len(tracks')
              /\ \A k \in 1..Len(buffer) : buffer[k].vid = tracks'[k]

C33_BulkLoadPriority == [][BulkLoadIssues]_vars

\* The play paths over a long pending list: start-up, 'n', 'p', Space with
\* the queue view closed or open, the completions of the fetches, the
\* request() calls made and the fetch tasks.
NextPrefetch ==
    \/ LoadQueue(LongSaved(Some(1)))
    \/ AppCallRequest
    \/ ReqCheckCount
    \/ ReqCheckCache
    \/ ReqCheckFailed
    \/ ReqCheckInflight
    \/ ReqIncrement
    \/ ReqSpawn
    \/ \E i \in TaskIds, outcome \in FetchOutcomes : TaskRecord(i, outcome)
    \/ \E i \in TaskIds : TaskSend(i)
    \/ \E i \in TaskIds : TaskDecrement(i)
    \/ \E i \in TaskIds : TaskRemove(i)
    \/ AppReceive
    \/ CmdPlayNext
    \/ CmdPlayPrevious
    \/ CmdSpace
    \/ CmdToggleQueue
    \/ LoopAround

SpecPrefetch == Init /\ [][NextPrefetch]_vars

\* C31: whenever a track begins to play, through 'n', 'p', Space on the
\* current or first track, Space on the selected item of the queue view, or
\* the completion of the awaited fetch, the handler calls request() for each
\* of the first 10 pending tracks, in queue order, before it returns.
PlaybackBegins ==
    /\ pOp' = "play_ok"
    /\ \/ /\ aOp'.name \in {"play_next", "play_previous", "play_current_or_first",
                            "play_selected"}
          /\ aOp'.cached
       \/ /\ aOp'.name = "completion"
          /\ aOp'.waited
          /\ aOp'.ok

PrefetchOnPlay ==
    PlaybackBegins =>
        /\ Len(reqs') = (IF Len(tracks') < 10 THEN Len(tracks') ELSE 10)
        /\ \A k \in 1..Len(reqs') : reqs'[k].vid = tracks'[k]

C31_PrefetchOnPlay == [][PrefetchOnPlay]_vars

\* A track has begun to play with more than ten tracks pending, and the
\* handler is about to request the first ten.
C31_Witness ==
    /\ pOp = "play_ok"
    /\ aOp.name = "play_selected"
    /\ aOp.cached
    /\ Len(tracks) > 10
    /\ Len(reqs) = 10
    /\ \A k \in 1..10 : reqs[k].vid = tracks[k]

=========================================================================
